---- MODULE Spec2Model ----
(***************************************************************************)
(* The day-by-day trading simulation of ai-hedge-fund-ts                   *)
(* (SimulationAnalysis.handleRunSimulation) together with the two server   *)
(* actions whose results decide how a run starts (validateTicker,          *)
(* fetchHistoricalStockData).                                              *)
(*                                                                         *)
(* Conventions.                                                            *)
(*   - Money is an integer number of currency units; share counts are      *)
(*     integers, as parseInt and the fixed tradeSize make them.            *)
(*   - A quote date is a day number (UTC calendar day); the log's date     *)
(*     string (toISOString().split('T')[0]) is that day number.            *)
(*   - A message (Error.message, the error field of a result object) is a  *)
(*     sequence of string tokens; the empty sequence stands for an absent  *)
(*     or empty message, which JavaScript's || and ! treat alike.          *)
(*   - An optional number or object is a sequence of length 0 (absent) or  *)
(*     1; an optional enum string is Undefined when absent.                *)
(***************************************************************************)
EXTENDS Integers, Sequences, FiniteSets, TLC

VARIABLES
    \* React state of SimulationAnalysis
    ticker, timeframe, initialShares, isLoading, error, simulationLog,
    finalPortfolioValue,
    \* position in handleRunSimulation and its locals
    pc, currentLog, validateResult, historicalDataResult,
    cash, sharesHeld, currentPortfolioValue, i, daySignal, dayError,
    sharesTraded,
    \* one call of the server action fetchData: its arguments (the query
    \* lists and simulationDate), its position, the searches in flight and
    \* its locals
    queries, asOf, fetchPc, pending, searches, results, stockDataResult,
    fetchReturn,
    \* HedgeFundAnalysis: which of its two versions is mounted, its React
    \* state, the position in handleSubmit, the server actions it has invoked
    \* in this run and the result the running then-callback received
    pipeline, tickerInput, analysisLoading, analysisError, currentStep,
    tradingSignal, report, stockData, submitPc, invoked, stageResult,
    \* one call of a server action or of one of their helpers: its name, its
    \* arguments and what it returned
    callee, args, returned

uiVars == <<ticker, timeframe, initialShares>>
outVars == <<isLoading, error, simulationLog, finalPortfolioValue>>
initVars == <<validateResult, historicalDataResult>>
portfolioVars == <<cash, sharesHeld>>
dayVars == <<daySignal, dayError, sharesTraded>>
simulationVars ==
    <<ticker, timeframe, initialShares, isLoading, error, simulationLog,
      finalPortfolioValue, pc, currentLog, validateResult,
      historicalDataResult, cash, sharesHeld,
      currentPortfolioValue, i, daySignal, dayError, sharesTraded>>
fetchVars ==
    <<queries, asOf, fetchPc, pending, searches, results, stockDataResult,
      fetchReturn>>
analysisVars ==
    <<pipeline, tickerInput, analysisLoading, analysisError, currentStep,
      tradingSignal, report, stockData, submitPc, invoked, stageResult>>
callVars == <<callee, args, returned>>
\* fetchData but for its simulationDate argument.
fetchRun ==
    <<queries, fetchPc, pending, searches, results, stockDataResult, fetchReturn>>
\* What a step of the simulation leaves alone.
outsideSimulation == <<fetchVars, analysisVars, callVars>>
vars == <<simulationVars, fetchVars, analysisVars, callVars>>

----------------------------------------------------------------------------
(* Program constants *)

tradeSize == 100
initialCash == 10000
defaultTimeframe == 5

(* Bounds of the model *)

\* The largest number of entries the price service returns for one run.
MaxQuotes == 3

\* Closing prices: tradeSize shares cost less than initialCash, exactly
\* initialCash, and more than initialCash.
Prices == {95, 100, 105}
Dates == 1..MaxQuotes

\* What the user can type into the three inputs.
TickerInputs == {"", " ", "aapl"}
TimeframeInputs == {-3}
InitialSharesInputs == {-50, 0, 50}

----------------------------------------------------------------------------
(* Values *)

Undefined == "undefined"
NoMessage == <<>>
None == <<>>
Some(v) == <<v>>

\* A variant that a slip in the code would produce: the fallback left out.
OrElseNothing(m, dflt) == m

\* a.b || c for messages
OrElse(m, dflt) == IF m = NoMessage THEN dflt ELSE m

Min(a, b) == IF a <= b THEN a ELSE b
Abs(x) == IF x < 0 THEN -x ELSE x

\* String.prototype.toUpperCase and trim on the inputs of the model
ToUpperCase(s) ==
    CASE s = "aapl" -> "AAPL"
      [] s = "appl" -> "APPL"
      [] OTHER -> s
Trim(s) == IF s = " " THEN "" ELSE s

\* parseInt(v, 10) || dflt
ParseIntOr(v, dflt) == IF v = 0 THEN dflt ELSE v

----------------------------------------------------------------------------
(* Server action validateTicker *)

\* A quote of the symbol lookup that carries no string symbol.
NoSymbol == "<no symbol>"

\* Outcomes of yahooFinance.search: it throws (with a message that contains
\* "Not Found" or "Failed to fetch", or some other message) or returns a list
\* of quotes, given here by their symbols.
SearchOutcomes ==
    { [throws |-> t, quotes |-> <<>>] : t \in {"Not Found", "other"} }
    \cup
    { [throws |-> "no", quotes |-> q] :
        q \in { <<>>, <<"AAPL">>, <<"AAPLW", "AAPL">>, <<NoSymbol>>,
                <<"AAPL", "AAPLW", NoSymbol, "APLE", "APLX">> } }

SliceAll(s) == s

Slice3(s) == SubSeq(s, 1, Min(3, Len(s)))

validateTicker(t, searchResult) ==
    IF searchResult.throws # "no"
    THEN IF searchResult.throws \in {"Not Found", "Failed to fetch"}
         THEN [success |-> FALSE, ticker |-> Undefined,
               error |-> <<"Error searching for ticker symbol:", t>>]
         ELSE [success |-> FALSE, ticker |-> Undefined,
               error |-> <<"Failed to validate ticker due to an unexpected error.">>]
    ELSE IF Len(searchResult.quotes) > 0
    THEN IF \E k \in 1..Len(searchResult.quotes) :
                /\ searchResult.quotes[k] # NoSymbol
                /\ searchResult.quotes[k] = t
         THEN [success |-> TRUE, ticker |-> t, error |-> NoMessage]
         ELSE LET suggestedSymbols ==
                      Slice3(SelectSeq(searchResult.quotes,
                                       LAMBDA q : q # NoSymbol))
              IN  IF suggestedSymbols # <<>>
                  THEN [success |-> FALSE, ticker |-> Undefined,
                        error |-> <<"Ticker symbol not found. Did you mean one of these:", t>>
                                  \o suggestedSymbols]
                  ELSE [success |-> FALSE, ticker |-> Undefined,
                        error |-> <<"Ticker symbol not found. No similar symbols were identified.", t>>]
    ELSE [success |-> FALSE, ticker |-> Undefined,
          error |-> <<"No results found for ticker symbol:", t>>]

----------------------------------------------------------------------------
(* Server action fetchHistoricalStockData *)

\* An entry of the chart result: ok is FALSE for an entry the action skips
\* (no date, a close that is not a number, a date that does not parse).
RawQuotes == [date : Dates, close : Prices, ok : BOOLEAN]

RECURSIVE SeqsOver(_, _)
SeqsOver(S, n) ==
    IF n = 0 THEN { <<>> }
    ELSE LET shorter == SeqsOver(S, n - 1)
         IN  shorter \cup { Append(s, x) : s \in { t \in shorter : Len(t) = n - 1 }, x \in S }

DistinctDates(s) == \A a, b \in 1..Len(s) : a # b => s[a].date # s[b].date

\* Outcomes of yahooFinance.chart: it throws, or returns the day's entries of
\* the range in whatever order the service sends them.
ChartOutcomes ==
    { [throws |-> TRUE, quotes |-> <<>>] }
    \cup
    { [throws |-> FALSE, quotes |-> q] :
        q \in { s \in SeqsOver(RawQuotes, MaxQuotes) : DistinctDates(s) } }

\* .sort((a, b) => a.date.getTime() - b.date.getTime()) of the server action
SortQuotes(s) == SortSeq(s, LAMBDA a, b : a.date < b.date)

StripQuote(q) == [date |-> q.date, close |-> q.close]

RECURSIVE MapStrip(_)
MapStrip(s) == IF s = <<>> THEN <<>> ELSE <<StripQuote(Head(s))>> \o MapStrip(Tail(s))

fetchHistoricalStockData(t, chart) ==
    IF chart.throws
    THEN [quotes |-> <<>>, error |-> <<"Failed to fetch historical data:", t>>]
    ELSE IF Len(chart.quotes) = 0
    THEN [quotes |-> <<>>, error |-> <<"No historical quotes found for", t>>]
    ELSE [quotes |-> SortQuotes(MapStrip(SelectSeq(chart.quotes, LAMBDA q : q.ok))),
          error |-> NoMessage]

----------------------------------------------------------------------------
(* Server actions of one simulated day *)

\* generateQueries, fetchData and sanitizeData as the handler sees them: a
\* result object with success, data present or not, and an error message.
StageOk == [success |-> TRUE, hasData |-> TRUE, error |-> NoMessage]
StageResults ==
    { StageOk,
      [success |-> FALSE, hasData |-> FALSE, error |-> <<"upstream error">>],
      [success |-> FALSE, hasData |-> FALSE, error |-> NoMessage] }

\* The objects generateSignals can return as data (its zod schema).
Signals ==
    { [signal |-> "bullish", confidence |-> 80, action |-> "buy", stocks |-> 200,
        reason |-> "strong recent results"],
      [signal |-> "bearish", confidence |-> 60, action |-> "sell", stocks |-> 100,
        reason |-> "weak guidance"],
      [signal |-> "bearish", confidence |-> 80, action |-> "short", stocks |-> 200,
        reason |-> "fraud allegations"],
      [signal |-> "bullish", confidence |-> 40, action |-> "cover", stocks |-> 50,
        reason |-> "recovery under way"],
      [signal |-> "neutral", confidence |-> 20, action |-> "hold", stocks |-> 0,
        reason |-> "mixed evidence"],
      [signal |-> "neutral", confidence |-> 30, action |-> "hold", stocks |-> 0,
        reason |-> ""] }

SignalResults ==
    { [success |-> TRUE, data |-> Some(s), error |-> NoMessage] : s \in Signals }
    \cup
    { [success |-> FALSE, data |-> None, error |-> e] : e \in { <<"upstream error">>, NoMessage } }

----------------------------------------------------------------------------
(* SimulationAnalysis: the component once the user has filled in the three  *)
(* inputs (their onChange handlers), before Run Simulation is clicked.      *)

NoValidateResult == [success |-> FALSE, ticker |-> Undefined, error |-> NoMessage]
NoHistoricalData == [quotes |-> <<>>, error |-> NoMessage]

\* onChange of the ticker, timeframe and initialShares inputs
SetTicker(v) == ToUpperCase(v)
SetTimeframe(v) == ParseIntOr(v, 1)
SetInitialShares(v) == ParseIntOr(v, 0)

\* The state of everything but the three inputs when the component mounts.
SimulationAtRest ==
    /\ isLoading = FALSE
    /\ error = NoMessage
    /\ simulationLog = <<>>
    /\ finalPortfolioValue = None
    /\ pc = "Idle"
    /\ currentLog = <<>>
    /\ validateResult = NoValidateResult
    /\ historicalDataResult = NoHistoricalData
    /\ cash = 0
    /\ sharesHeld = 0
    /\ currentPortfolioValue = 0
    /\ i = 0
    /\ daySignal = None
    /\ dayError = NoMessage
    /\ sharesTraded = 0

\* The categories of search queries, in the order fetchData runs them.
Categories == <<"recent", "weekly", "monthly", "earnings">>
EachCategory(v) == [recent |-> v, weekly |-> v, monthly |-> v, earnings |-> v]

\* fetchData before it is called.
FetchNotCalled ==
    /\ fetchPc = "NotCalled"
    /\ pending = {}
    /\ searches = EachCategory(<<>>)
    /\ results = EachCategory(<<>>)
    /\ stockDataResult = None
    /\ fetchReturn = None

\* The result of a server action as the then-callback (or the catch)
\* receives it: the promise rejected with a message, or resolved with a
\* result object (success, data present or not, error).
Resolved(success, data, message) ==
    [rejected |-> FALSE, success |-> success, data |-> data, error |-> message]
Rejected(message) ==
    [rejected |-> TRUE, success |-> FALSE, data |-> None, error |-> message]
NoStageResult == Resolved(FALSE, None, NoMessage)

\* HedgeFundAnalysis when it mounts.
AnalysisAtRest ==
    /\ analysisLoading = FALSE
    /\ analysisError = NoMessage
    /\ currentStep = "idle"
    /\ tradingSignal = None
    /\ report = None
    /\ stockData = None
    /\ submitPc = "Idle"
    /\ invoked = <<>>
    /\ stageResult = NoStageResult

\* No helper has been called.
NoCall == callee = "none" /\ args = <<>> /\ returned = <<>>

Init ==
    /\ ticker \in { SetTicker(v) : v \in TickerInputs }
    /\ timeframe \in { SetTimeframe(v) : v \in TimeframeInputs \cup {defaultTimeframe} }
    /\ initialShares \in { SetInitialShares(v) : v \in InitialSharesInputs }
    /\ SimulationAtRest
    /\ queries = EachCategory(<<>>) /\ asOf = None /\ FetchNotCalled
    /\ pipeline = "extended" /\ tickerInput = "" /\ AnalysisAtRest
    /\ NoCall

\* The Run Simulation button is enabled.
CanRun ==
    ~(isLoading \/ Trim(ticker) = "" \/ timeframe < 1 \/ initialShares < 0)

----------------------------------------------------------------------------
(* handleRunSimulation *)

\* The array the handler sorts in place and walks.
historicalQuotes == historicalDataResult.quotes

\* The click: the state resets and the first await, validateTicker, is issued.
HandleRunSimulation ==
    /\ CanRun
    /\ isLoading' = TRUE
    /\ error' = NoMessage
    /\ simulationLog' = <<>>
    /\ finalPortfolioValue' = None
    /\ currentLog' = <<>>
    /\ pc' = "Validating"
    /\ validateResult' = NoValidateResult
    /\ historicalDataResult' = NoHistoricalData
    /\ cash' = 0
    /\ sharesHeld' = 0
    /\ currentPortfolioValue' = 0
    /\ i' = 0
    /\ daySignal' = None
    /\ dayError' = NoMessage
    /\ sharesTraded' = 0
    /\ UNCHANGED <<outsideSimulation, uiVars>>

\* The outer catch and finally: the run ends with the error shown.
SimulationFailed(message) ==
    /\ error' = OrElse(message, <<"An unexpected error occurred during simulation.">>)
    /\ isLoading' = FALSE
    /\ pc' = "Failed"
    /\ UNCHANGED <<simulationLog, finalPortfolioValue, currentLog, portfolioVars,
                   currentPortfolioValue, i, dayVars>>

\* 1. validateTicker returns.
ValidateTickerReturns ==
    /\ pc = "Validating"
    /\ \E searchResult \in SearchOutcomes :
        LET r == validateTicker(ticker, searchResult)
        IN  /\ validateResult' = r
            /\ IF ~r.success \/ r.ticker = Undefined \/ r.ticker = ""
               THEN SimulationFailed(OrElse(r.error, <<"Invalid ticker symbol">>))
               ELSE /\ pc' = "FetchingHistory"
                    /\ UNCHANGED <<outVars, currentLog, portfolioVars,
                                   currentPortfolioValue, i, dayVars>>
    /\ UNCHANGED <<outsideSimulation, uiVars, historicalDataResult>>

PortfolioValueCashOnly(c, shares, price) == c

PortfolioValue(c, shares, price) == c + shares * price

StartEntryWithoutShares(price, shares, c, value) ==
    [date |-> "Start", price |-> price, sharesHeld |-> 0, cash |-> c,
     portfolioValue |-> value]

StartEntry(price, shares, c, value) ==
    [date |-> "Start", price |-> price, sharesHeld |-> shares, cash |-> c,
     portfolioValue |-> value]

SortByDateDescending(s) == SortSeq(s, LAMBDA a, b : b.date < a.date)

NotEnoughDataOffByOne(quotes) == Len(quotes) < 1

\* Array.prototype.sort((a, b) => a.date.getTime() - b.date.getTime()), in place
SortByDate(s) == SortSeq(s, LAMBDA a, b : a.date < b.date)

NotEnoughData(quotes) == Len(quotes) < 2

\* A variant of the test that a slip in the code would produce: the last
\* quote is kept for the final valuation only.
LoopTestBeforeLast(k, quotes) == k < Len(quotes) - 1

\* The test of the for loop
LoopTest(k, quotes) == k < Len(quotes)

\* historicalQuotes[k] of the source, whose arrays start at 0
QuoteAt(k) == historicalQuotes[k + 1]

currentDayQuote == QuoteAt(i)
\* A variant that a slip in the code would produce: the date of the last quote
simulationDateOfLastQuote == QuoteAt(Len(historicalQuotes) - 1).date
simulationDate == currentDayQuote.date
\* simulationDate.toISOString().split('T')[0]: the UTC day of the quote
currentDateStr == simulationDate
currentPrice == currentDayQuote.close

\* A call of a server action that has returned is no longer in flight.
CallOver == callee' = "none" /\ args' = <<>> /\ returned' = <<>>

\* The top of the loop body: if there is a quote left, the day's first await,
\* generateQueries(validatedTicker, simulationDate), is issued.
EnterDay ==
    /\ IF pc' = "PlanningQueries"
       THEN /\ callee' = "generateQueries"
            /\ args' = <<validateResult.ticker, simulationDate'>>
            /\ returned' = None
       ELSE UNCHANGED callVars
    /\ UNCHANGED fetchVars
    /\ UNCHANGED analysisVars

\* 2. fetchHistoricalStockData returns; the quotes are sorted; the portfolio
\* is initialised and the Start entry logged; the loop is entered at i = 1
\* and the day's first await, generateQueries, is issued.
FetchHistoricalReturns ==
    /\ pc = "FetchingHistory"
    /\ \E chart \in ChartOutcomes :
        LET r == fetchHistoricalStockData(validateResult.ticker, chart)
            sorted == SortByDate(r.quotes)
        IN  IF r.error # NoMessage \/ Len(r.quotes) = 0
            THEN /\ historicalDataResult' = r
                 /\ SimulationFailed(OrElse(r.error,
                        <<"No historical stock data found in the required range for", validateResult.ticker>>))
            ELSE /\ historicalDataResult' = [r EXCEPT !.quotes = sorted]
                 /\ IF NotEnoughData(sorted)
                    THEN SimulationFailed(<<"Not enough historical data points to run simulation.">>)
                    ELSE LET initialPrice == sorted[1].close
                             value == PortfolioValue(initialCash, initialShares, initialPrice)
                         IN  /\ cash' = initialCash
                             /\ sharesHeld' = initialShares
                             /\ currentPortfolioValue' = value
                             /\ currentLog' = Append(currentLog,
                                    StartEntry(initialPrice, initialShares, initialCash, value))
                             /\ simulationLog' = currentLog'
                             /\ i' = 1
                             /\ pc' = IF LoopTest(i', sorted)
                                      THEN "PlanningQueries" ELSE "Finalizing"
                             /\ UNCHANGED <<isLoading, error, finalPortfolioValue, dayVars>>
    /\ UNCHANGED <<uiVars, validateResult>>
    /\ EnterDay

----------------------------------------------------------------------------
(* One simulated day: the awaits of the inner try *)

\* The inner try missing: the day's error reaches the outer catch.
DayFailedUncaught(message) ==
    /\ SimulationFailed(message)
    /\ UNCHANGED <<uiVars, initVars>>

\* The inner catch putting the portfolio back to where the run started.
DayFailedRollingBack(message) ==
    /\ dayError' = OrElse(message, <<"An error occurred this day.">>)
    /\ sharesTraded' = 0
    /\ cash' = initialCash
    /\ sharesHeld' = initialShares
    /\ pc' = "Logging"
    /\ UNCHANGED <<uiVars, outVars, currentLog, initVars,
                   currentPortfolioValue, i, daySignal>>

\* The inner catch: the day's error is recorded and no shares are traded.
DayFailed(message) ==
    /\ dayError' = OrElse(message, <<"An error occurred this day.">>)
    /\ sharesTraded' = 0
    /\ pc' = "Logging"
    /\ UNCHANGED <<uiVars, outVars, currentLog, initVars, portfolioVars,
                   currentPortfolioValue, i, daySignal>>

DayContinues(next) ==
    /\ pc' = next
    /\ UNCHANGED <<uiVars, outVars, currentLog, initVars, portfolioVars,
                   currentPortfolioValue, i, dayVars>>

\* b. generateQueries returns.
GenerateQueriesReturns ==
    /\ pc = "PlanningQueries"
    /\ \E queriesResult \in StageResults :
        IF ~queriesResult.success \/ ~queriesResult.hasData
        THEN /\ DayFailed(OrElse(queriesResult.error, <<"Failed to generate queries">>))
             /\ asOf' = asOf
        ELSE /\ DayContinues("FetchingEvidence")
             /\ asOf' = Some(simulationDate)
    /\ CallOver
    /\ UNCHANGED <<fetchRun, analysisVars>>

\* c. fetchData returns.
FetchDataReturns ==
    /\ pc = "FetchingEvidence"
    /\ \E fetchResult \in StageResults :
        IF ~fetchResult.success \/ ~fetchResult.hasData
        THEN DayFailed(OrElse(fetchResult.error, <<"Failed to fetch news data">>))
        ELSE DayContinues("Synthesizing")
    /\ asOf' = None
    /\ UNCHANGED <<fetchRun, analysisVars, callVars>>

\* d. sanitizeData returns.
SanitizeDataReturns ==
    /\ pc = "Synthesizing"
    /\ \E sanitizeResult \in StageResults :
        IF ~sanitizeResult.success \/ ~sanitizeResult.hasData
        THEN DayFailed(OrElse(sanitizeResult.error, <<"Failed to sanitize data">>))
        ELSE DayContinues("GeneratingSignal")
    /\ UNCHANGED outsideSimulation

\* e. generateSignals returns.
GenerateSignalsReturns ==
    /\ pc = "GeneratingSignal"
    /\ \E signalsResult \in SignalResults :
        IF ~signalsResult.success \/ signalsResult.data = None
        THEN DayFailed(OrElse(signalsResult.error, <<"Failed to generate signals">>))
        ELSE /\ daySignal' = signalsResult.data
             /\ pc' = "ExecutingTrade"
             /\ UNCHANGED <<uiVars, outVars, currentLog, initVars, portfolioVars,
                            currentPortfolioValue, i, dayError, sharesTraded>>
    /\ UNCHANGED outsideSimulation

----------------------------------------------------------------------------
(* f. Execute simulated trade: the switch on daySignal.action.  Each case    *)
(* gives the action the signal is left with, the shares traded and the      *)
(* portfolio after it.                                                      *)

Outcome(action, traded, shares, c) ==
    [action |-> action, sharesTraded |-> traded, sharesHeld |-> shares, cash |-> c]

\* Variants of the switch cases that a slip in the code would produce
BuyCaseUnguarded(c, shares, price, sharesToTrade) ==
    Outcome("buy", sharesToTrade, shares + sharesToTrade, c - sharesToTrade * price)

BuyCaseStrict(c, shares, price, sharesToTrade) ==
    IF c > sharesToTrade * price
    THEN Outcome("buy", sharesToTrade, shares + sharesToTrade, c - sharesToTrade * price)
    ELSE Outcome("hold", 0, shares, c)

SellCaseUncapped(c, shares, price, sharesToTrade) ==
    IF shares > 0
    THEN Outcome("sell", sharesToTrade, shares - sharesToTrade, c + sharesToTrade * price)
    ELSE Outcome("hold", 0, shares, c)

BuyCaseGuardPerShare(c, shares, price, sharesToTrade) ==
    IF c >= price
    THEN Outcome("buy", sharesToTrade, shares + sharesToTrade, c - sharesToTrade * price)
    ELSE Outcome("hold", 0, shares, c)

ShortCaseExecuted(c, shares, price, sharesToTrade) ==
    Outcome("short", sharesToTrade, shares - sharesToTrade, c + sharesToTrade * price)

BuyCase(c, shares, price, sharesToTrade) ==
    IF c >= sharesToTrade * price
    THEN Outcome("buy", sharesToTrade, shares + sharesToTrade, c - sharesToTrade * price)
    ELSE Outcome("hold", 0, shares, c)

SellCase(c, shares, price, sharesToTrade) ==
    IF shares > 0
    THEN LET traded == Min(sharesToTrade, shares)
         IN  Outcome("sell", traded, shares - traded, c + traded * price)
    ELSE Outcome("hold", 0, shares, c)

ShortCase(c, shares, price, sharesToTrade) == Outcome("hold", 0, shares, c)

CoverCase(c, shares, price, sharesToTrade) == Outcome("hold", 0, shares, c)

HoldCase(action, c, shares) == Outcome(action, 0, shares, c)

TradeSwitch(action, c, shares, price, sharesToTrade) ==
    CASE action = "buy" -> BuyCase(c, shares, price, sharesToTrade)
      [] action = "sell" -> SellCase(c, shares, price, sharesToTrade)
      [] action = "short" -> ShortCase(c, shares, price, sharesToTrade)
      [] action = "cover" -> CoverCase(c, shares, price, sharesToTrade)
      [] OTHER -> HoldCase(action, c, shares)

\* A variant of the step that a slip in the code would produce: the signal's
\* own share count is traded.
ExecuteTradeSignalStocks ==
    /\ pc = "ExecutingTrade"
    /\ LET signal == daySignal[1]
           out == TradeSwitch(signal.action, cash, sharesHeld, currentPrice, signal.stocks)
       IN  /\ daySignal' = Some([signal EXCEPT !.action = out.action])
           /\ sharesTraded' = out.sharesTraded
           /\ sharesHeld' = out.sharesHeld
           /\ cash' = out.cash
    /\ pc' = "Logging"
    /\ UNCHANGED <<outsideSimulation, uiVars, outVars, currentLog, initVars, currentPortfolioValue,
                   i, dayError>>

ExecuteTrade ==
    /\ pc = "ExecutingTrade"
    /\ LET signal == daySignal[1]
           out == TradeSwitch(signal.action, cash, sharesHeld, currentPrice, tradeSize)
       IN  /\ daySignal' = Some([signal EXCEPT !.action = out.action])
           /\ sharesTraded' = out.sharesTraded
           /\ sharesHeld' = out.sharesHeld
           /\ cash' = out.cash
    /\ pc' = "Logging"
    /\ UNCHANGED <<outsideSimulation, uiVars, outVars, currentLog, initVars, currentPortfolioValue,
                   i, dayError>>

----------------------------------------------------------------------------
(* g, h. Valuation, log normalisation and the push of the day's entry *)

\* daySignal?.field
SignalField(sig, field) == IF sig = None THEN Undefined ELSE sig[1][field]

UnsignedSharesTraded(loggedAction, traded) == Abs(traded)

SignedSharesTraded(loggedAction, traded) ==
    IF loggedAction = "sell" \/ loggedAction = "short"
    THEN -Abs(traded)
    ELSE Abs(traded)

\* A variant of the test that a slip in the code would produce: whatever the
\* action, the label is dropped when no shares are held.
SuppressWhenFlat(loggedAction, shares, err) == shares = 0 /\ err = NoMessage

\* "If the effective action is 'hold' but no shares are held, don't log 'hold'."
SuppressHold(loggedAction, shares, err) ==
    loggedAction = "hold" /\ shares = 0 /\ err = NoMessage

DayEntry(dateStr, price, sig, err, traded, c, shares, value) ==
    LET action == SignalField(sig, "action")
        reason == SignalField(sig, "reason")
        suppress == SuppressHold(action, shares, err)
    IN  [date |-> dateStr,
         price |-> price,
         signal |-> SignalField(sig, "signal"),
         action |-> IF suppress THEN Undefined ELSE action,
         sharesTraded |-> IF suppress THEN 0 ELSE SignedSharesTraded(action, traded),
         sharesHeld |-> shares,
         cash |-> c,
         portfolioValue |-> value,
         reason |-> IF suppress /\ reason \in {Undefined, ""}
                    THEN "No position to hold." ELSE reason,
         error |-> err]

NextDay(k) == k + 1

\* The day's entry is pushed and shown; the loop goes on to the next quote
\* (whose first await is issued) or is left.
LogDay ==
    /\ pc = "Logging"
    /\ currentPortfolioValue' = PortfolioValue(cash, sharesHeld, currentPrice)
    /\ currentLog' = Append(currentLog,
            DayEntry(currentDateStr, currentPrice, daySignal, dayError, sharesTraded,
                     cash, sharesHeld, currentPortfolioValue'))
    /\ simulationLog' = currentLog'
    /\ i' = NextDay(i)
    /\ daySignal' = None
    /\ dayError' = NoMessage
    /\ sharesTraded' = 0
    /\ pc' = IF LoopTest(i', historicalQuotes) THEN "PlanningQueries" ELSE "Finalizing"
    /\ UNCHANGED <<uiVars, isLoading, error, finalPortfolioValue, initVars,
                   portfolioVars>>
    /\ EnterDay

\* 4. The final portfolio value at the last available price; finally.
Finalize ==
    /\ pc = "Finalizing"
    /\ LET finalPrice == QuoteAt(Len(historicalQuotes) - 1).close
       IN  finalPortfolioValue' = Some(cash + sharesHeld * finalPrice)
    /\ isLoading' = FALSE
    /\ pc' = "Completed"
    /\ UNCHANGED <<outsideSimulation, uiVars, error, simulationLog, currentLog, initVars,
                   portfolioVars, currentPortfolioValue, i, dayVars>>

----------------------------------------------------------------------------

Next ==
    \/ HandleRunSimulation
    \/ ValidateTickerReturns
    \/ FetchHistoricalReturns
    \/ GenerateQueriesReturns
    \/ FetchDataReturns
    \/ SanitizeDataReturns
    \/ GenerateSignalsReturns
    \/ ExecuteTrade
    \/ LogDay
    \/ Finalize

Spec == Init /\ [][Next]_vars

----------------------------------------------------------------------------
(* Properties *)

Last(s) == s[Len(s)]
DayIndices == 2..Len(currentLog)
PendingSignal == daySignal[1]
Trading(action) == pc = "ExecutingTrade" /\ PendingSignal.action = action
Traded(action, traded, shares, c) ==
    /\ SignalField(daySignal', "action") = action
    /\ sharesTraded' = traded
    /\ sharesHeld' = shares
    /\ cash' = c

\* C1. Portfolio non-negativity: the simulation's cash and sharesHeld, and
\* the cash and sharesHeld of every log entry, are never negative.
PortfolioNonNegative ==
    /\ cash >= 0
    /\ sharesHeld >= 0
    /\ \A k \in 1..Len(currentLog) : currentLog[k].cash >= 0 /\ currentLog[k].sharesHeld >= 0
    /\ \A k \in 1..Len(simulationLog) :
        simulationLog[k].cash >= 0 /\ simulationLog[k].sharesHeld >= 0

\* A run that bought all it could afford on day 1 (cash exactly 0) and sold on day 2.
BoughtOutThenSold ==
    /\ Len(simulationLog) = 3
    /\ simulationLog[2].action = "buy" /\ simulationLog[2].cash = 0
    /\ simulationLog[3].action = "sell" /\ simulationLog[3].sharesTraded < 0

\* C2. Buy rule: a buy signal with cash >= tradeSize * price adds exactly
\* tradeSize shares and takes exactly tradeSize * price from cash; with less
\* cash nothing changes, the action becomes hold and no shares are traded.
BuyRule ==
    [][Trading("buy") =>
        IF cash >= tradeSize * currentPrice
        THEN Traded("buy", tradeSize, sharesHeld + tradeSize, cash - tradeSize * currentPrice)
        ELSE Traded("hold", 0, sharesHeld, cash)]_vars

\* A buy executed on day 1 and a buy downgraded on day 2 for lack of cash.
BoughtThenCouldNotBuy ==
    /\ pc = "Logging" /\ i = 2 /\ daySignal # None
    /\ currentLog[2].action = "buy" /\ currentLog[2].sharesTraded = tradeSize
    /\ PendingSignal.reason = "strong recent results"
    /\ PendingSignal.action = "hold" /\ sharesTraded = 0
    /\ cash < tradeSize * currentPrice

\* C3. Sell rule: a sell signal with shares held sells min(tradeSize,
\* sharesHeld) of them at the day's price; with no shares held nothing
\* changes, the action becomes hold and no shares are traded.
SellRule ==
    [][Trading("sell") =>
        IF sharesHeld > 0
        THEN LET traded == Min(tradeSize, sharesHeld)
             IN  Traded("sell", traded, sharesHeld - traded, cash + traded * currentPrice)
        ELSE sharesHeld = 0 /\ Traded("hold", 0, sharesHeld, cash)]_vars

\* A sell of fewer than tradeSize shares on day 1 (all that was held) and a
\* sell downgraded on day 2.
SoldAllThenCouldNotSell ==
    /\ pc = "Logging" /\ i = 2 /\ daySignal # None
    /\ currentLog[2].action = "sell" /\ currentLog[2].sharesTraded = -50
    /\ currentLog[2].sharesHeld = 0
    /\ PendingSignal.reason = "weak guidance"
    /\ PendingSignal.action = "hold" /\ sharesTraded = 0

\* C4. A short or cover signal leaves cash and sharesHeld unchanged, trades
\* no shares and becomes a hold.
ShortCoverDowngraded ==
    [][Trading("short") \/ Trading("cover") => Traded("hold", 0, sharesHeld, cash)]_vars

\* A cover on day 1 and a short on day 2, both with shares held and cash at hand.
CoveredThenShorted ==
    /\ pc = "Logging" /\ i = 2 /\ daySignal # None
    /\ currentLog[2].reason = "recovery under way" /\ currentLog[2].action = "hold"
    /\ PendingSignal.reason = "fraud allegations" /\ PendingSignal.action = "hold"
    /\ sharesHeld > 0 /\ cash > 0

\* C5. Portfolio value reconciliation: every log entry, the Start entry and
\* the entries of failed days included, has portfolioValue = cash +
\* sharesHeld * price of its own fields.
Reconciled(entry) == entry.portfolioValue = entry.cash + entry.sharesHeld * entry.price

ValueReconciled ==
    /\ \A k \in 1..Len(currentLog) : Reconciled(currentLog[k])
    /\ \A k \in 1..Len(simulationLog) : Reconciled(simulationLog[k])

\* A log with shares held from the start, a failed day and a day with a trade.
FailedDayThenTradeLogged ==
    /\ Len(simulationLog) = 3
    /\ simulationLog[1].sharesHeld > 0
    /\ simulationLog[2].error # NoMessage
    /\ simulationLog[3].action = "buy"
    /\ simulationLog[3].price # simulationLog[2].price

\* C6. Day-failure isolation: a failing sub-step of day i never ends the
\* run; it sets the day's error with no shares traded and the portfolio
\* untouched, the day's entry carries that error, sharesTraded = 0 and the
\* cash and sharesHeld of the entry before it, and the loop goes on to day
\* i + 1 (if there is one) with those values.
DayStages == {"PlanningQueries", "FetchingEvidence", "Synthesizing", "GeneratingSignal"}

DayFailureIsolated ==
    [][/\ pc \in DayStages =>
            /\ pc' \in DayStages \cup {"ExecutingTrade", "Logging"}
            /\ isLoading' /\ error' = NoMessage
            /\ pc' = "Logging" =>
                /\ dayError' # NoMessage /\ sharesTraded' = 0 /\ daySignal' = None
                /\ cash' = cash /\ sharesHeld' = sharesHeld
       /\ pc = "Logging" /\ dayError # NoMessage =>
            LET entry == Last(currentLog')
                before == Last(currentLog)
            IN  /\ Len(currentLog') = Len(currentLog) + 1
                /\ entry.error = dayError /\ entry.sharesTraded = 0
                /\ entry.cash = before.cash /\ entry.sharesHeld = before.sharesHeld
                /\ cash' = before.cash /\ sharesHeld' = before.sharesHeld
                /\ IF i + 1 < Len(historicalQuotes)
                   THEN pc' = "PlanningQueries" /\ i' = i + 1
                   ELSE pc' = "Finalizing"]_vars

\* Day 1 traded, day 2 failed and was logged with day 1's portfolio.
TradedThenFailedDayLogged ==
    /\ Len(currentLog) = 3
    /\ currentLog[2].action = "buy"
    /\ currentLog[3].error # NoMessage /\ currentLog[3].sharesTraded = 0
    /\ currentLog[3].cash = currentLog[2].cash
    /\ currentLog[3].cash # currentLog[1].cash

\* C7. A run ends Failed, with the error set and no final portfolio value,
\* exactly when initialization fails (the ticker does not validate, the
\* historical fetch gives an error or no quotes, or fewer than 2 quotes are
\* left); every other run can always go on, whatever days fail, and ends
\* Completed with a final portfolio value and no error.
InitializationFailed ==
    \/ ~validateResult.success
    \/ validateResult.ticker = Undefined
    \/ historicalDataResult.error # NoMessage
    \/ Len(historicalDataResult.quotes) < 2

FailedOnlyByInitialization ==
    /\ pc = "Failed" =>
        /\ InitializationFailed
        /\ error # NoMessage /\ finalPortfolioValue = None /\ ~isLoading
    /\ pc = "Completed" =>
        /\ ~InitializationFailed
        /\ error = NoMessage /\ finalPortfolioValue # None /\ ~isLoading
    /\ pc \in DayStages \cup {"ExecutingTrade", "Logging", "Finalizing"} =>
        ~InitializationFailed
    /\ isLoading => pc \notin {"Idle", "Completed", "Failed"} /\ ENABLED Next
    /\ ~isLoading => pc \in {"Idle", "Completed", "Failed"}

\* A completed run both of whose days failed.
CompletedThoughEveryDayFailed ==
    /\ pc = "Completed"
    /\ Len(simulationLog) = 3
    /\ simulationLog[2].error # NoMessage
    /\ simulationLog[3].error # NoMessage
    /\ finalPortfolioValue # None

\* C8. The per-day loop is sequential: while any sub-step of day i is in
\* progress the log holds exactly the Start entry and the entries of days
\* 1..i-1, and the days are logged in ascending order of quote date.
SequentialDays ==
    /\ pc \in DayStages \cup {"ExecutingTrade", "Logging"} =>
        /\ i \in 1..(Len(historicalQuotes) - 1)
        /\ Len(currentLog) = i
    /\ pc \in {"Finalizing", "Completed"} =>
        i = Len(historicalQuotes) /\ Len(currentLog) = i
    /\ \A k \in DayIndices : currentLog[k].date = QuoteAt(k - 1).date
    /\ \A k \in DayIndices : k > 2 => currentLog[k - 1].date < currentLog[k].date
    /\ \A k \in 1..(Len(historicalQuotes) - 1) :
        historicalQuotes[k].date < historicalQuotes[k + 1].date

\* Day 2's planning under way with day 1 logged.
SecondDayPlanning ==
    /\ pc = "PlanningQueries" /\ i = 2
    /\ Len(currentLog) = 2
    /\ currentLog[2].date = QuoteAt(1).date
    /\ QuoteAt(1).date < QuoteAt(2).date

\* C9. The log is append-only during a run, and the log of a completed run
\* over N quotes has exactly N entries: the Start entry, seeded from quote
\* 0's close and the initial cash and shares, then one entry per quote
\* 1..N-1 in order.
AppendedOrSame(before, after) ==
    \/ after = before
    \/ /\ Len(after) = Len(before) + 1
       /\ SubSeq(after, 1, Len(before)) = before

CompleteLog(log) ==
    /\ Len(log) = Len(historicalQuotes)
    /\ log[1] = [date |-> "Start", price |-> QuoteAt(0).close,
                 sharesHeld |-> initialShares, cash |-> initialCash,
                 portfolioValue |-> initialCash + initialShares * QuoteAt(0).close]
    /\ \A k \in 2..Len(log) :
        log[k].date = QuoteAt(k - 1).date /\ log[k].price = QuoteAt(k - 1).close

LogNormalized ==
    /\ [](\A k \in 2..Len(simulationLog) :
            LET entry == simulationLog[k]
            IN  /\ entry.action \in {"sell", "short"} => entry.sharesTraded <= 0
                /\ entry.action \in {"buy", "cover"} => entry.sharesTraded >= 0
                /\ ~(entry.action = "hold" /\ entry.sharesHeld = 0 /\ entry.error = NoMessage))
    /\ [][/\ pc = "Logging"
          /\ SignalField(daySignal, "action") = "hold"
          /\ sharesHeld = 0
          /\ dayError = NoMessage
          => /\ Last(simulationLog').action = Undefined
             /\ Last(simulationLog').sharesTraded = 0
             /\ Last(simulationLog').signal = PendingSignal.signal]_vars

\* A sell logged with a negative count, then a hold with nothing held, logged
\* without its label.
SoldThenHoldSuppressed ==
    /\ Len(simulationLog) = 3
    /\ simulationLog[2].action = "sell" /\ simulationLog[2].sharesTraded = -50
    /\ simulationLog[3].action = Undefined /\ simulationLog[3].signal = "neutral"
    /\ simulationLog[3].sharesTraded = 0 /\ simulationLog[3].error = NoMessage

----------------------------------------------------------------------------
(* The worked scenario: closes 100, 105, 95 on three successive days, no    *)
(* shares at the start, a buy signal on the second quote and a sell signal  *)
(* on the third.                                                            *)

Closes(quotes) == [k \in 1..Len(quotes) |-> quotes[k].close]

ScenarioQuotes ==
    /\ initialShares = 0
    /\ pc \notin {"Idle", "Validating", "FetchingHistory", "Failed"}
    /\ Closes(historicalQuotes) = <<100, 105, 95>>

\* The entry of a day that held the portfolio at initialCash and no shares.
Flat(entry) ==
    /\ entry.sharesHeld = 0 /\ entry.cash = initialCash
    /\ entry.portfolioValue = initialCash
    /\ entry.sharesTraded = 0 /\ entry.action \notin {"buy", "sell"}
    /\ entry.error = NoMessage

----------------------------------------------------------------------------
(* Search responses and the two pure helpers every search response passes  *)
(* through.                                                                *)
(*   - A URL is a sequence of one-character strings, so that trim,          *)
(*     toLowerCase and the three regular-expression replacements act on    *)
(*     its characters; the empty sequence is an absent or empty url.        *)
(*   - A published_date is a record: text "" for an absent or empty        *)
(*     string, text "iso" with the day it names for a date string, any     *)
(*     other text for a string new Date() cannot parse.  Instants are      *)
(*     counted in days.                                                    *)
(*   - A response, its results array and its images array are optional     *)
(*     values (None when null or missing).                                 *)

NoUrl == <<>>
NoDate == [text |-> "", day |-> 0]
DateString(day) == [text |-> "iso", day |-> day]
Unparseable == [text |-> "two days ago", day |-> 0]

\* new Date(s).getTime(): None for NaN
ParseDate(s) == IF s.text = "iso" THEN Some(s.day) ELSE None

WhiteSpace == {" ", "\t", "\n"}
UpperLetters ==
    <<"A", "B", "C", "D", "E", "F", "G", "H", "I", "J", "K", "L", "M",
      "N", "O", "P", "Q", "R", "S", "T", "U", "V", "W", "X", "Y", "Z">>
LowerLetters ==
    <<"a", "b", "c", "d", "e", "f", "g", "h", "i", "j", "k", "l", "m",
      "n", "o", "p", "q", "r", "s", "t", "u", "v", "w", "x", "y", "z">>

LowerChar(c) ==
    IF \E k \in DOMAIN UpperLetters : UpperLetters[k] = c
    THEN LowerLetters[CHOOSE k \in DOMAIN UpperLetters : UpperLetters[k] = c]
    ELSE c

\* String.prototype.toLowerCase
LowerChars(u) == [k \in DOMAIN u |-> LowerChar(u[k])]

RECURSIVE TrimStart(_)
TrimStart(u) ==
    IF u # <<>> /\ Head(u) \in WhiteSpace THEN TrimStart(Tail(u)) ELSE u

RECURSIVE TrimEnd(_)
TrimEnd(u) ==
    IF u # <<>> /\ u[Len(u)] \in WhiteSpace
    THEN TrimEnd(SubSeq(u, 1, Len(u) - 1))
    ELSE u

\* String.prototype.trim
TrimChars(u) == TrimEnd(TrimStart(u))

StartsWith(u, prefix) ==
    Len(u) >= Len(prefix) /\ SubSeq(u, 1, Len(prefix)) = prefix

StripPrefix(u, prefix) ==
    IF StartsWith(u, prefix) THEN SubSeq(u, Len(prefix) + 1, Len(u)) ELSE u

HttpScheme == <<"h", "t", "t", "p", ":", "/", "/">>
HttpsScheme == <<"h", "t", "t", "p", "s", ":", "/", "/">>
WwwPrefix == <<"w", "w", "w", ".">>

\* .replace(/\/$/, "")
StripTrailingSlash(u) ==
    IF u # <<>> /\ u[Len(u)] = "/" THEN SubSeq(u, 1, Len(u) - 1) ELSE u

\* .replace(/^https?:\/\//, "")
StripScheme(u) ==
    IF StartsWith(u, HttpsScheme) THEN StripPrefix(u, HttpsScheme)
    ELSE StripPrefix(u, HttpScheme)

\* .replace(/^www\./, "")
StripWww(u) == StripPrefix(u, WwwPrefix)

\* Variants of normalizeUrl that a slip in the code would produce
normalizeUrlKeepingCase(url) ==
    StripWww(StripScheme(StripTrailingSlash(TrimChars(url))))

normalizeUrl(url) ==
    StripWww(StripScheme(StripTrailingSlash(LowerChars(TrimChars(url)))))

\* A variant of the filter that a slip in the code would produce: only the
\* first repeated item is dropped.
RECURSIVE DropFirstRepeated(_, _)
DropFirstRepeated(items, seenUrls) ==
    IF items = <<>> THEN <<>>
    ELSE LET item == Head(items)
             url == normalizeUrl(item.url)
         IN  IF item.url = NoUrl
             THEN <<item>> \o DropFirstRepeated(Tail(items), seenUrls)
             ELSE IF url \in seenUrls
             THEN Tail(items)
             ELSE <<item>> \o DropFirstRepeated(Tail(items), seenUrls \cup {url})

\* Array.prototype.filter with the seenUrls set: an item with no url is
\* kept, an item whose normalized url was seen is dropped.
RECURSIVE FilterFirstByUrl(_, _)
FilterFirstByUrl(items, seenUrls) ==
    IF items = <<>> THEN <<>>
    ELSE LET item == Head(items)
             url == normalizeUrl(item.url)
         IN  IF item.url = NoUrl
             THEN <<item>> \o FilterFirstByUrl(Tail(items), seenUrls)
             ELSE IF url \in seenUrls
             THEN FilterFirstByUrl(Tail(items), seenUrls)
             ELSE <<item>> \o FilterFirstByUrl(Tail(items), seenUrls \cup {url})

\* A variant that a slip in the code would produce: the images are filtered
\* with the set of urls the results have filled.
deduplicateSharingSeenUrls(searchResults) ==
    IF searchResults = None \/ searchResults[1].results = None
    THEN searchResults
    ELSE LET r == searchResults[1]
             seenUrls == { normalizeUrl(r.results[1][k].url) :
                            k \in { n \in DOMAIN r.results[1] : r.results[1][n].url # NoUrl } }
         IN  Some([r EXCEPT
                !.results = Some(FilterFirstByUrl(r.results[1], {})),
                !.images = IF r.images = None THEN None
                           ELSE Some(FilterFirstByUrl(r.images[1], seenUrls))])

deduplicateSearchResults(searchResults) ==
    IF searchResults = None \/ searchResults[1].results = None
    THEN searchResults
    ELSE LET r == searchResults[1]
         IN  Some([r EXCEPT
                !.results = Some(FilterFirstByUrl(r.results[1], {})),
                !.images = IF r.images = None THEN None
                           ELSE Some(FilterFirstByUrl(r.images[1], {}))])

\* Variants of the predicate that a slip in the code would produce
KeepByDateExclusive(item, startDate, endDate) ==
    IF item.published_date = NoDate THEN TRUE
    ELSE LET itemDate == ParseDate(item.published_date)
         IN  IF itemDate = None THEN FALSE
             ELSE itemDate[1] > startDate /\ itemDate[1] <= endDate

KeepByDateNoUpperBound(item, startDate, endDate) ==
    IF item.published_date = NoDate THEN TRUE
    ELSE LET itemDate == ParseDate(item.published_date)
         IN  IF itemDate = None THEN FALSE
             ELSE itemDate[1] >= startDate

\* The predicate of filterResultsByDate's filter
KeepByDate(item, startDate, endDate) ==
    IF item.published_date = NoDate THEN TRUE
    ELSE LET itemDate == ParseDate(item.published_date)
         IN  IF itemDate = None THEN FALSE
             ELSE itemDate[1] >= startDate /\ itemDate[1] <= endDate

filterResultsByDate(searchResponse, startDate, endDate) ==
    IF searchResponse = None \/ searchResponse[1].results = None
    THEN searchResponse
    ELSE LET r == searchResponse[1]
         IN  Some([r EXCEPT !.results =
                Some(SelectSeq(r.results[1],
                               LAMBDA item : KeepByDate(item, startDate, endDate)))])

----------------------------------------------------------------------------
(* fetchData: the searches of the four categories, each category a          *)
(* Promise.all over its queries, then the price request.                    *)

\* The largest number of queries planned for one call, all categories
\* together.
MaxQueries == 3

CategorySet == { Categories[k] : k \in DOMAIN Categories }

\* The query strings a plan takes its lists from; a plan can repeat a query.
QueryPool ==
    <<"AAPL earnings", "AAPL lawsuit", "AAPL earnings", "AAPL guidance",
      "AAPL outlook", "AAPL buyback">>

\* recent_queries, weekly_queries, monthly_queries, earnings_call_queries
Plans ==
    { [c \in CategorySet |-> SubSeq(QueryPool, 1, n[c])] :
        n \in { m \in [CategorySet -> 0..MaxQueries] :
                    m.recent + m.weekly + m.monthly + m.earnings <= MaxQueries } }

\* The day of new Date() and the day of a simulationDate argument.
Today == 300
SimulationDay == 200
AsOfDates == {None, Some(SimulationDay)}

fetchTicker == "AAPL"

\* simulationDate ? simulationDate : new Date()
EndDate(simulationDateArg) == OrElse(simulationDateArg, <<Today>>)[1]

LookbackDays == [recent |-> 2, weekly |-> 7, monthly |-> 30, earnings |-> 90]

\* startDate.setDate(endDate.getDate() - n)
StartDate(category, endDate) == endDate - LookbackDays[category]

Host == <<"e", "x", ".", "c", "o">>
Url(path) == HttpsScheme \o Host \o <<"/", path>>
Item(path, date) == [url |-> Url(path), published_date |-> date, title |-> path]

\* A response of the search service with an item on each side of every
\* window's two ends, an item dated exactly endDate, an undated item, an
\* item whose date cannot be parsed, and an old item followed by a fresh
\* one with the same normalized url.
DatedResponse(endDate) ==
    Some([results |-> Some(<<
            [url |-> HttpScheme \o <<"W", "W", "W", ".">> \o Host \o <<"/", "a", "/">>,
             published_date |-> DateString(endDate - 91), title |-> "old copy"],
            Item("a", DateString(endDate)),
            Item("b", DateString(endDate + 1)),
            Item("c", DateString(endDate)),
            Item("d", DateString(endDate - 2)),
            Item("e", DateString(endDate - 3)),
            Item("f", DateString(endDate - 7)),
            Item("g", DateString(endDate - 8)),
            Item("h", DateString(endDate - 30)),
            Item("i", DateString(endDate - 31)),
            Item("j", DateString(endDate - 90)),
            Item("k", DateString(endDate - 91)),
            Item("l", NoDate),
            Item("m", Unparseable) >>),
          images |-> None])

PlainResponse ==
    Some([results |-> Some(<<Item("n", NoDate)>>), images |-> Some(<<>>)])

\* How tvly.search settles: it throws, or returns a response.
TavilyOutcomes(endDate) ==
    { [throws |-> TRUE, res |-> None] }
    \cup { [throws |-> FALSE, res |-> r] : r \in {DatedResponse(endDate), PlainResponse} }

\* How yahooFinance.chart settles: it throws an Error or something else,
\* returns nothing, or returns the chart.
PriceOutcomes ==
    { [throws |-> "Error", chart |-> None],
      [throws |-> "other", chart |-> None],
      [throws |-> "no", chart |-> None],
      [throws |-> "no", chart |-> Some([quotes |-> <<[date |-> 1, close |-> 100]>>])] }

\* Array.prototype.push
PushOverwriting(array, entry) ==
    IF array = <<>> THEN <<entry>> ELSE [array EXCEPT ![Len(array)] = entry]

Push(array, entry) == Append(array, entry)

\* The entry of the catch branch of a search callback
FailedEntry(query) == [query |-> query, result |-> None, success |-> FALSE]

\* The entry of a search that returned
SearchEntryFilteredFirst(query, res, startDate, endDate) ==
    [query |-> query,
     result |-> deduplicateSearchResults(filterResultsByDate(res, startDate, endDate)),
     success |-> TRUE]

SearchEntry(query, res, startDate, endDate) ==
    [query |-> query,
     result |-> filterResultsByDate(deduplicateSearchResults(res), startDate, endDate),
     success |-> TRUE]

\* queries.map(async (query) => ...): every search of the category is issued.
Dispatch(category) ==
    /\ fetchPc' = category
    /\ pending' = DOMAIN queries[category]
    /\ searches' = [searches EXCEPT ![category] =
            [k \in DOMAIN queries[category] |-> [state |-> "pending", res |-> None]]]

\* A variant that a slip in the code would produce: the price request follows
\* the monthly searches, as it did before there were earnings queries.
NextStepWithoutEarnings(category) ==
    LET k == CHOOSE n \in DOMAIN Categories : Categories[n] = category
    IN  IF k < Len(Categories) - 1 THEN Categories[k + 1] ELSE "price"

\* What follows a category's Promise.all
NextStep(category) ==
    LET k == CHOOSE n \in DOMAIN Categories : Categories[n] = category
    IN  IF k < Len(Categories) THEN Categories[k + 1] ELSE "price"

\* Promise.all resolves.
AllSettledOrNone(waiting, issued) == waiting = {} \/ waiting # issued

AllSettled(waiting, issued) == waiting = {}

\* !stockDataResult
ChartMissingIgnored(chart) == FALSE

ChartMissing(chart) == chart = None

FetchInit ==
    /\ ticker = "" /\ timeframe = defaultTimeframe /\ initialShares = 0
    /\ SimulationAtRest
    /\ pipeline = "extended" /\ tickerInput = "" /\ AnalysisAtRest
    /\ NoCall
    /\ queries \in Plans
    /\ asOf \in AsOfDates
    /\ FetchNotCalled

\* The call: the result arrays are created and the recent searches issued.
FetchDataCalled ==
    /\ fetchPc = "NotCalled"
    /\ results' = EachCategory(<<>>)
    /\ Dispatch("recent")
    /\ UNCHANGED <<queries, asOf, stockDataResult, fetchReturn>>
    /\ UNCHANGED <<simulationVars, analysisVars, callVars>>

\* One search of the running category settles and its callback pushes its
\* entry.
SearchSettles ==
    /\ fetchPc \in CategorySet
    /\ \E k \in pending, o \in TavilyOutcomes(EndDate(asOf)) :
        LET query == queries[fetchPc][k]
            endDate == EndDate(asOf)
            entry == IF o.throws THEN FailedEntry(query)
                     ELSE SearchEntry(query, o.res, StartDate(fetchPc, endDate), endDate)
        IN  /\ searches' = [searches EXCEPT ![fetchPc][k] =
                    [state |-> IF o.throws THEN "threw" ELSE "returned", res |-> o.res]]
            /\ results' = [results EXCEPT ![fetchPc] = Push(@, entry)]
            /\ pending' = pending \ {k}
    /\ UNCHANGED <<queries, asOf, fetchPc, stockDataResult, fetchReturn>>
    /\ UNCHANGED <<simulationVars, analysisVars, callVars>>

\* The category's Promise.all resolves; the next category's searches, or
\* the price request, are issued.
GatherCompletes ==
    /\ fetchPc \in CategorySet
    /\ AllSettled(pending, DOMAIN queries[fetchPc])
    /\ IF NextStep(fetchPc) \in CategorySet
       THEN Dispatch(NextStep(fetchPc))
       ELSE /\ fetchPc' = "price"
            /\ UNCHANGED <<pending, searches>>
    /\ UNCHANGED <<queries, asOf, results, stockDataResult, fetchReturn>>
    /\ UNCHANGED <<simulationVars, analysisVars, callVars>>

FetchFailed(message) == [success |-> FALSE, data |-> None, error |-> message]

\* The price request settles and fetchData returns.
ChartSettles ==
    /\ fetchPc = "price"
    /\ \E o \in PriceOutcomes :
        /\ stockDataResult' = o.chart
        /\ fetchReturn' = Some(
            IF o.throws = "Error" THEN FetchFailed(<<"chart request failed">>)
            ELSE IF o.throws = "other" THEN FetchFailed(<<"An error occurred">>)
            ELSE IF ChartMissing(o.chart)
            THEN FetchFailed(<<"Stock data not found for", fetchTicker>>
                    \o IF asOf = None THEN <<>> ELSE <<"around the simulation date">>)
            ELSE [success |-> TRUE,
                  data |-> Some([ticker |-> fetchTicker, stockData |-> o.chart,
                                 results |-> results]),
                  error |-> NoMessage])
    /\ fetchPc' = "returned"
    /\ UNCHANGED <<queries, asOf, pending, searches, results>>
    /\ UNCHANGED <<simulationVars, analysisVars, callVars>>

FetchNext ==
    \/ FetchDataCalled
    \/ SearchSettles
    \/ GatherCompletes
    \/ ChartSettles

FetchSpec == FetchInit /\ [][FetchNext]_vars

----------------------------------------------------------------------------
(* Properties of fetchData *)

\* The number of elements of a sequence that satisfy a test.
Count(seq, Test(_)) == Cardinality({ k \in DOMAIN seq : Test(seq[k]) })

QueryStrings == { QueryPool[k] : k \in DOMAIN QueryPool }

\* The searches of a category issued for query q that have settled / thrown.
SettledFor(category, q) ==
    Cardinality({ k \in DOMAIN searches[category] :
                    queries[category][k] = q /\ searches[category][k].state # "pending" })
ThrownFor(category, q) ==
    Cardinality({ k \in DOMAIN searches[category] :
                    queries[category][k] = q /\ searches[category][k].state = "threw" })

\* C12. Partial failure: whatever the order in which the searches settle and
\* whichever of them fail, every settled search has exactly one entry in its
\* category's array (none lost, overwritten or duplicated); the entry of a
\* failed search has result = null and success = false, the entry of a
\* search that returned has success = true; a failed search does not end
\* the call, which returns only after every planned search has its entry;
\* and a successful return carries, for each category, one entry per planned
\* query.
PartialFailureRecorded ==
    /\ \A c \in CategorySet :
        /\ Len(results[c]) = Cardinality(DOMAIN searches[c] \ (IF fetchPc = c THEN pending ELSE {}))
        /\ \A q \in QueryStrings :
            /\ Count(results[c], LAMBDA e : e.query = q) = SettledFor(c, q)
            /\ Count(results[c], LAMBDA e : e.query = q /\ ~e.success) = ThrownFor(c, q)
        /\ \A k \in DOMAIN results[c] :
            ~results[c][k].success => results[c][k].result = None
    /\ fetchPc \in {"price", "returned"} =>
        \A c \in CategorySet :
            /\ Len(results[c]) = Len(queries[c])
            /\ \A q \in QueryStrings :
                Count(results[c], LAMBDA e : e.query = q) = Count(queries[c], LAMBDA x : x = q)
    /\ fetchReturn # None /\ fetchReturn[1].success =>
        /\ fetchPc = "returned"
        /\ fetchReturn[1].data[1].results = results

\* A successful return after the second recent search failed first and the
\* first returned last, and the only weekly search failed.
FailedFirstThenReturned ==
    /\ fetchReturn # None /\ fetchReturn[1].success
    /\ LET recentResults == fetchReturn[1].data[1].results.recent
           weeklyResults == fetchReturn[1].data[1].results.weekly
       IN  /\ Len(recentResults) = 2 /\ Len(weeklyResults) = 1
           /\ recentResults[1] = FailedEntry(QueryPool[2])
           /\ recentResults[2].query = QueryPool[1] /\ recentResults[2].success
           /\ recentResults[2].result # None
           /\ weeklyResults[1] = FailedEntry(QueryPool[1])

\* Every search issued in the call returned / threw.
EverySearch(state) ==
    \A c \in CategorySet : \A k \in DOMAIN searches[c] : searches[c][k].state = state

\* C13. The price request decides the outcome of fetchData: if it throws or
\* returns nothing, fetchData returns success = false with an error string
\* and no data, even when every search returned; if it returns a chart,
\* fetchData returns success = true with data, however many searches failed.
PriceFailureFatal ==
    fetchPc = "returned" =>
        /\ fetchReturn # None
        /\ stockDataResult = None =>
            /\ ~fetchReturn[1].success
            /\ fetchReturn[1].error # NoMessage
            /\ fetchReturn[1].data = None
        /\ stockDataResult # None =>
            /\ fetchReturn[1].success
            /\ fetchReturn[1].data # None
            /\ fetchReturn[1].data[1].stockData = stockDataResult

\* The price service returned nothing after three searches that all
\* returned.
PriceMissingAfterGoodSearches ==
    /\ fetchPc = "returned"
    /\ EverySearch("returned")
    /\ Len(results.recent) + Len(results.weekly) + Len(results.monthly) = 3
    /\ ~fetchReturn[1].success
    /\ fetchReturn[1].error = <<"Stock data not found for", fetchTicker>>

----------------------------------------------------------------------------
(* The helpers of the server actions, one call at a time: the arguments of  *)
(* the call (for a helper that awaits an outside service, the way that      *)
(* service settles is one of them) and what the call returns.               *)

\* The longest results array and images array of a response.
MaxItems == 3
MaxImages == 2

\* String.prototype.toUpperCase, to write URLs in capitals
UpperChar(c) ==
    IF \E k \in DOMAIN LowerLetters : LowerLetters[k] = c
    THEN UpperLetters[CHOOSE k \in DOMAIN LowerLetters : LowerLetters[k] = c]
    ELSE c
UpperChars(u) == [k \in DOMAIN u |-> UpperChar(u[k])]
\* Capitals at the odd positions
MixedChars(u) == [k \in DOMAIN u |-> IF k % 2 = 1 THEN UpperChar(u[k]) ELSE u[k]]

\* URLs as a site writes them: host and path, in lower case, with no scheme,
\* no www. and no slash at the end.
BareUrls == { Host, Host \o <<"/", "a">>, Host \o <<"/", "a", "/", "b">> }

\* The ways in which two spellings of one URL differ.
Spellings ==
    [left : { <<>>, <<" ">> },
     right : { <<>>, <<"\n">>, <<" ", "\t">> },
     letters : {"lower", "upper", "mixed"},
     scheme : { <<>>, HttpScheme, HttpsScheme },
     www : { <<>>, WwwPrefix },
     slash : { <<>>, <<"/">> }]

Spell(bare, sp) ==
    LET body == sp.scheme \o sp.www \o bare \o sp.slash
    IN  sp.left
        \o (CASE sp.letters = "upper" -> UpperChars(body)
              [] sp.letters = "mixed" -> MixedChars(body)
              [] OTHER -> body)
        \o sp.right

ExampleBare == <<"e", "x", "a", "m", "p", "l", "e", ".", "c", "o", "m", "/", "a">>
ExampleUrlA ==
    HttpScheme \o <<"W", "W", "W", ".", "E", "x", "a", "m", "p", "l", "e", ".",
                    "c", "o", "m", "/", "a", "/">>
ExampleUrlB == HttpsScheme \o ExampleBare

UrlInputs ==
    { Spell(bare, sp) : bare \in BareUrls, sp \in Spellings }
    \cup {ExampleUrlA, ExampleUrlB}

\* Result items: two spellings of one URL, two of another, and an item
\* without url.
ItemPool ==
    { [url |-> ExampleUrlA, published_date |-> NoDate, title |-> "first"],
      [url |-> ExampleUrlB, published_date |-> NoDate, title |-> "second"],
      Item("b", NoDate),
      [url |-> <<" ">> \o HttpScheme \o Host \o <<"/", "B", "/">>,
       published_date |-> NoDate, title |-> "third"],
      [url |-> NoUrl, published_date |-> NoDate, title |-> "untitled"] }

ImagePool ==
    { [url |-> ExampleUrlA, description |-> "logo"],
      [url |-> ExampleUrlB, description |-> "logo again"],
      [url |-> NoUrl, description |-> "chart"] }

\* Responses handed to deduplicateSearchResults: null, one without a results
\* array, and those with a results array and with or without an images array.
DedupInputs ==
    { None,
      Some([results |-> None, images |-> None]),
      Some([results |-> None,
            images |-> Some(<<[url |-> ExampleUrlA, description |-> "logo"],
                              [url |-> ExampleUrlB, description |-> "logo again"]>>)]) }
    \cup
    { Some([results |-> Some(r), images |-> im]) :
        r \in SeqsOver(ItemPool, MaxItems),
        im \in {None} \cup { Some(x) : x \in SeqsOver(ImagePool, MaxImages) } }

\* The windows handed to filterResultsByDate and items dated around them.
Windows == { [startDate |-> 10, endDate |-> 12], [startDate |-> 20, endDate |-> 20] }

DatedItems(w) ==
    { Item("a", DateString(w.startDate - 1)),
      Item("b", DateString(w.startDate)),
      Item("c", DateString(w.endDate)),
      Item("d", DateString(w.endDate + 1)),
      Item("e", NoDate),
      Item("f", Unparseable) }

FilterInputs ==
    { <<r, w.startDate, w.endDate>> :
        r \in { None, Some([results |-> None, images |-> None]) }, w \in Windows }
    \cup
    UNION { { <<Some([results |-> Some(r), images |-> None]), w.startDate, w.endDate>> :
                r \in SeqsOver(DatedItems(w), MaxItems) } : w \in Windows }

\* What the user typed and how the symbol lookup settles.
LookupOutcomes ==
    SearchOutcomes
    \cup { [throws |-> "Failed to fetch", quotes |-> <<>>] }
    \cup { [throws |-> "no", quotes |-> q] :
            q \in { <<"AAPL", "AAPLW">>, <<NoSymbol, NoSymbol>>,
                    <<"AAPLW", "APLE", NoSymbol, "APLX", "APPL">> } }

ValidateInputs == { <<t, o>> : t \in {"AAPL", "aapl", "APPL"}, o \in LookupOutcomes }

\* The objects that pass the zod schema of generateSignals: an enum signal,
\* an integer confidence in 0..100, an enum action, an integer stocks >= 0
\* and a string reason.
SchemaObjects ==
    [signal : {"bullish", "bearish", "neutral"},
     confidence : {0, 30, 31, 100},
     action : {"buy", "cover", "sell", "short", "hold"},
     stocks : {0, 50, 200},
     reason : {"as the summary says"}]

\* How generateObject settles: it throws, or returns an object of the
\* schema, or returns none.
ModelOutcomes ==
    { [throws |-> "Error", object |-> None],
      [throws |-> "other", object |-> None],
      [throws |-> "no", object |-> None] }
    \cup { [throws |-> "no", object |-> Some(o)] : o \in SchemaObjects }

SignalFailed(message) == [success |-> FALSE, data |-> None, error |-> message]

generateSignals(model) ==
    IF model.throws = "Error" THEN SignalFailed(<<"model request failed">>)
    ELSE IF model.throws = "other" THEN SignalFailed(<<"An error occurred">>)
    ELSE IF model.object = None
    THEN SignalFailed(<<"Couldn't generate final signal for the stock">>)
    ELSE [success |-> TRUE, data |-> model.object, error |-> NoMessage]

generateImprovedSignals(model) ==
    IF model.throws = "Error" THEN SignalFailed(<<"model request failed">>)
    ELSE IF model.throws = "other" THEN SignalFailed(<<"An error occurred">>)
    ELSE IF model.object = None
    THEN SignalFailed(<<"Failed to generate trading signal">>)
    ELSE [success |-> TRUE, data |-> model.object, error |-> NoMessage]

HelperInit ==
    /\ ticker = "" /\ timeframe = defaultTimeframe /\ initialShares = 0
    /\ SimulationAtRest
    /\ queries = EachCategory(<<>>) /\ asOf = None /\ FetchNotCalled
    /\ pipeline = "extended" /\ tickerInput = "" /\ AnalysisAtRest
    /\ returned = None
    /\ \/ callee = "normalizeUrl" /\ args \in { <<u>> : u \in UrlInputs }
       \/ callee = "deduplicateSearchResults" /\ args \in { <<r>> : r \in DedupInputs }
       \/ callee = "filterResultsByDate" /\ args \in FilterInputs
       \/ callee = "validateTicker" /\ args \in ValidateInputs
       \/ callee \in {"generateSignals", "generateImprovedSignals"}
            /\ args \in { <<m>> : m \in ModelOutcomes }

Returns(value) ==
    /\ returned = None
    /\ returned' = Some(value)
    /\ UNCHANGED <<callee, args>>
    /\ UNCHANGED <<simulationVars, fetchVars, analysisVars>>

UrlNormalized ==
    /\ callee = "normalizeUrl"
    /\ Returns(normalizeUrl(args[1]))

ResponseDeduplicated ==
    /\ callee = "deduplicateSearchResults"
    /\ Returns(deduplicateSearchResults(args[1]))

ResponseFiltered ==
    /\ callee = "filterResultsByDate"
    /\ Returns(filterResultsByDate(args[1], args[2], args[3]))

TickerValidated ==
    /\ callee = "validateTicker"
    /\ Returns(validateTicker(args[1], args[2]))

SignalsGenerated ==
    /\ callee = "generateSignals"
    /\ Returns(generateSignals(args[1]))

ImprovedSignalsGenerated ==
    /\ callee = "generateImprovedSignals"
    /\ Returns(generateImprovedSignals(args[1]))

HelperNext ==
    \/ UrlNormalized
    \/ ResponseDeduplicated
    \/ ResponseFiltered
    \/ TickerValidated
    \/ SignalsGenerated
    \/ ImprovedSignalsGenerated

HelperSpec == HelperInit /\ [][HelperNext]_vars

----------------------------------------------------------------------------
(* Properties of the helpers *)

\* A call of the helper has returned.
Returned(name) == callee = name /\ returned # None

\* C14. Dedup idempotence: deduplicating what deduplicateSearchResults
\* returned gives the same response, results list and images list alike; a
\* second pass removes nothing.
DedupIdempotent ==
    Returned("deduplicateSearchResults") =>
        /\ deduplicateSearchResults(returned[1]) = returned[1]
        /\ returned[1] # None /\ returned[1][1].results # None =>
            LET again == deduplicateSearchResults(returned[1])[1]
            IN  /\ Len(again.results[1]) = Len(returned[1][1].results[1])
                /\ returned[1][1].images # None =>
                    Len(again.images[1]) = Len(returned[1][1].images[1])

\* A response of three results, all spellings of one URL, and two images
\* with one URL, of which the first pass kept one each.
RepeatsRemovedOnce ==
    /\ Returned("deduplicateSearchResults")
    /\ args[1] # None /\ args[1][1].results # None /\ args[1][1].images # None
    /\ Len(args[1][1].results[1]) = 3 /\ Len(returned[1][1].results[1]) = 1
    /\ Len(args[1][1].images[1]) = 2 /\ Len(returned[1][1].images[1]) = 1

\* The URLs of ItemPool, grouped by the URL they spell.
SpellingClasses ==
    { {ExampleUrlA, ExampleUrlB},
      {Url("b"), <<" ">> \o HttpScheme \o Host \o <<"/", "B", "/">>} }

Dated(items, date) == SelectSeq(items, LAMBDA item : item.published_date = date)

\* C16. Temporal filter boundary: filterResultsByDate keeps an item dated
\* exactly startDate or exactly endDate, drops an item dated one day before
\* startDate or one day after endDate, keeps an item with no
\* published_date and drops an item whose published_date cannot be parsed,
\* leaving the kept items in their order; a null response is returned
\* unchanged.
FilterBoundaries ==
    Returned("filterResultsByDate") =>
        /\ args[1] = None => returned[1] = None
        /\ args[1] # None /\ args[1][1].results # None =>
            LET given == args[1][1].results[1]
                kept == returned[1][1].results[1]
                startDate == args[2]
                endDate == args[3]
                Same(date) == Dated(kept, date) = Dated(given, date)
                Gone(date) == Dated(kept, date) = <<>>
            IN  /\ Same(DateString(startDate)) /\ Same(DateString(endDate))
                /\ Gone(DateString(startDate - 1)) /\ Gone(DateString(endDate + 1))
                /\ Same(NoDate)
                /\ Gone(Unparseable)
                /\ kept = SelectSeq(given, LAMBDA item :
                        item.published_date \in
                            {DateString(startDate), DateString(endDate), NoDate})

\* A response with an item dated the day before startDate, one dated
\* startDate and one with no date, of which the last two are kept.
BoundaryItemsFiltered ==
    /\ Returned("filterResultsByDate")
    /\ args[1] # None /\ args[1][1].results # None
    /\ args[2] < args[3]
    /\ LET given == args[1][1].results[1]
       IN  /\ Len(given) = 3
           /\ given[1].published_date = DateString(args[2] - 1)
           /\ given[2].published_date = DateString(args[2])
           /\ given[3].published_date = NoDate
           /\ returned[1][1].results[1] = <<given[2], given[3]>>

\* The symbols of the quotes of a lookup that carry one, in lookup order.
Candidates(lookup) == SelectSeq(lookup.quotes, LAMBDA q : q # NoSymbol)

FirstUpTo(n, s) == [k \in 1..(IF Len(s) < n THEN Len(s) ELSE n) |-> s[k]]

\* C17. validateTicker(t) returns success, with t as the ticker, exactly
\* when the lookup returned a quote whose symbol is t, letter for letter;
\* with no such quote but with candidates it returns a failure whose message
\* names the first up to 3 candidate symbols in lookup order (APPL with
\* AAPL, AAPLW names both); with no candidates, or when the lookup throws,
\* it returns a failure; it always returns a result.
TickerResolved ==
    Returned("validateTicker") =>
        LET t == args[1]
            lookup == args[2]
            result == returned[1]
            exact == lookup.throws = "no"
                     /\ \E k \in DOMAIN lookup.quotes : lookup.quotes[k] = t
        IN  /\ result.success <=> exact
            /\ result.success => result.ticker = t /\ result.error = NoMessage
            /\ ~result.success => result.ticker = Undefined /\ result.error # NoMessage
            /\ lookup.throws = "no" /\ ~exact /\ Candidates(lookup) # <<>> =>
                result.error =
                    <<"Ticker symbol not found. Did you mean one of these:", t>>
                    \o FirstUpTo(3, Candidates(lookup))
            /\ lookup.throws # "no" \/ Candidates(lookup) = <<>> =>
                /\ ~result.success
                /\ Len(result.error) <= 2
            /\ t = "APPL" /\ lookup.throws = "no" /\ lookup.quotes = <<"AAPL", "AAPLW">> =>
                result.error =
                    <<"Ticker symbol not found. Did you mean one of these:", "APPL",
                      "AAPL", "AAPLW">>

\* A misspelt ticker with five quotes, four of them with a symbol: the
\* failure names the first three.
ThreeSuggested ==
    /\ Returned("validateTicker")
    /\ args[1] = "APPL" /\ args[2].throws = "no"
    /\ Len(args[2].quotes) = 5 /\ Len(Candidates(args[2])) = 4
    /\ ~returned[1].success
    /\ Len(returned[1].error) = 5
    /\ returned[1].error[5] = Candidates(args[2])[3]

----------------------------------------------------------------------------
(* HedgeFundAnalysis.handleSubmit: the one-shot analysis, a chain of         *)
(* then-callbacks with one catch and one finally.  The extended version     *)
(* analyzes the query results, writes a report and derives the signal from  *)
(* it; the basic version synthesizes a summary and derives the signal from  *)
(* that.                                                                    *)

Pipelines == {"basic", "extended"}

\* The server actions of a run, in the order of the chain.
Stages(version) ==
    IF version = "extended"
    THEN <<"validateTicker", "generateQueries", "fetchData", "analyzeQueryResults",
           "generateResearchReport", "generateImprovedSignals">>
    ELSE <<"validateTicker", "generateQueries", "fetchData", "sanitizeData",
           "generateSignals">>

\* The message of the Error a then-callback throws when the result carries
\* none.
DefaultMessage(stage) ==
    CASE stage = "validateTicker" -> <<"Invalid ticker symbol">>
      [] stage = "generateQueries" -> <<"Failed to generate queries">>
      [] stage = "fetchData" -> <<"Failed to fetch data">>
      [] stage = "analyzeQueryResults" -> <<"Failed to analyze query results">>
      [] stage = "sanitizeData" -> <<"Failed to sanitize data">>
      [] stage = "generateResearchReport" -> <<"Failed to generate research report">>
      [] OTHER -> <<"Failed to generate signals">>

\* How a server action settles for the chain: the promise rejects, or
\* resolves with a failure (with or without message), with success but no
\* data, or with success and data.
Outcomes(stage, Data) ==
    { Rejected(<<"request failed">>), Rejected(NoMessage),
      Resolved(FALSE, None, <<"upstream error in", stage>>),
      Resolved(FALSE, None, NoMessage),
      Resolved(TRUE, None, NoMessage) }
    \cup { Resolved(TRUE, Some(d), NoMessage) : d \in Data }

\* validateTicker for the chain: what the server action returns for every
\* way the symbol lookup settles, or a rejected promise.
FromValidate(v) ==
    Resolved(v.success, IF v.ticker = Undefined THEN None ELSE Some(v.ticker), v.error)

ValidateOutcomes(t) ==
    { Rejected(<<"request failed">>), Rejected(NoMessage) }
    \cup { FromValidate(validateTicker(t, o)) : o \in SearchOutcomes }

\* The charts fetchData can carry: no quotes, one, or two.
ChartData ==
    { [quotes |-> q] :
        q \in { <<>>,
                <<[date |-> 1, close |-> 100]>>,
                <<[date |-> 1, close |-> 100], [date |-> 2, close |-> 105]>>,
                <<[date |-> 1, close |-> 105], [date |-> 2, close |-> 95]>> } }

\* !result.success || !result.data, or the promise rejected
StageFailedDataIgnored(r) == r.rejected \/ ~r.success

StageFailed(r) == r.rejected \/ ~r.success \/ r.data = None

\* err.message of what reaches the catch
FailureMessage(r, default) == IF r.rejected THEN r.error ELSE OrElse(r.error, default)

\* The catch and the finally.
Caught(message) ==
    /\ analysisError' = OrElse(message, <<"An error occurred during analysis">>)
    /\ currentStep' = "error"
    /\ analysisLoading' = FALSE
    /\ submitPc' = "Done"
    /\ UNCHANGED <<tradingSignal, report, stockData, invoked>>

\* A then-callback sets the step shown and calls the next server action.
Invoke(stage, step) ==
    /\ submitPc' = stage
    /\ invoked' = Append(invoked, stage)
    /\ currentStep' = step
    /\ UNCHANGED <<analysisLoading, analysisError>>

AnalysisInit ==
    /\ ticker = "" /\ timeframe = defaultTimeframe /\ initialShares = 0
    /\ SimulationAtRest
    /\ queries = EachCategory(<<>>) /\ asOf = None /\ FetchNotCalled
    /\ NoCall
    /\ pipeline \in Pipelines
    /\ tickerInput \in { ToUpperCase(v) : v \in TickerInputs }
    /\ AnalysisAtRest

\* The form is submitted (the button is disabled while loading and for a
\* blank ticker): the state resets and validateTicker is called.
HandleSubmit ==
    /\ ~analysisLoading
    /\ Trim(tickerInput) # ""
    /\ analysisLoading' = TRUE
    /\ analysisError' = NoMessage
    /\ tradingSignal' = None
    /\ report' = None
    /\ stockData' = None
    /\ currentStep' = "Validating ticker"
    /\ submitPc' = "validateTicker"
    /\ invoked' = <<"validateTicker">>
    /\ stageResult' = NoStageResult
    /\ UNCHANGED <<pipeline, tickerInput>>
    /\ UNCHANGED <<simulationVars, fetchVars, callVars>>

ValidateTickerSettles ==
    /\ submitPc = "validateTicker"
    /\ \E r \in ValidateOutcomes(Trim(tickerInput)) :
        /\ stageResult' = r
        /\ IF StageFailed(r)
           THEN Caught(FailureMessage(r, DefaultMessage(submitPc)))
           ELSE /\ Invoke("generateQueries", "Generating queries")
                /\ UNCHANGED <<tradingSignal, report, stockData>>
    /\ UNCHANGED <<pipeline, tickerInput>>
    /\ UNCHANGED <<simulationVars, fetchVars, callVars>>

GenerateQueriesSettles ==
    /\ submitPc = "generateQueries"
    /\ \E r \in Outcomes(submitPc, {"queries"}) :
        /\ stageResult' = r
        /\ IF StageFailed(r)
           THEN Caught(FailureMessage(r, DefaultMessage(submitPc)))
           ELSE /\ Invoke("fetchData", "Fetching stock and market data")
                /\ UNCHANGED <<tradingSignal, report, stockData>>
    /\ UNCHANGED <<pipeline, tickerInput>>
    /\ UNCHANGED <<simulationVars, fetchVars, callVars>>

\* fetchData settles; the callback reads the first and the last quote of the
\* chart, which throws a TypeError when the chart has none.
FetchDataSettles ==
    /\ submitPc = "fetchData"
    /\ \E r \in Outcomes(submitPc, ChartData) :
        /\ stageResult' = r
        /\ IF StageFailed(r)
           THEN Caught(FailureMessage(r, DefaultMessage(submitPc)))
           ELSE LET quotes == r.data[1].quotes
                IN  IF quotes = <<>>
                    THEN Caught(<<"Cannot read properties of undefined (reading 'close')">>)
                    ELSE /\ stockData' = Some(
                                [ticker |-> Trim(tickerInput),
                                 price |-> quotes[Len(quotes)].close,
                                 priceChange |-> quotes[Len(quotes)].close - quotes[1].close,
                                 firstClose |-> quotes[1].close])
                         /\ Invoke(Stages(pipeline)[4], "Analyzing")
                         /\ UNCHANGED <<tradingSignal, report>>
    /\ UNCHANGED <<pipeline, tickerInput>>
    /\ UNCHANGED <<simulationVars, fetchVars, callVars>>

\* analyzeQueryResults (extended) or sanitizeData (basic) settles.
AnalysisSettles ==
    /\ submitPc \in {"analyzeQueryResults", "sanitizeData"}
    /\ \E r \in Outcomes(submitPc, {"analysis"}) :
        /\ stageResult' = r
        /\ IF StageFailed(r)
           THEN Caught(FailureMessage(r, DefaultMessage(submitPc)))
           ELSE /\ IF submitPc = "analyzeQueryResults"
                   THEN Invoke("generateResearchReport", "Generating research report")
                   ELSE Invoke("generateSignals", "Generating trading signals")
                /\ UNCHANGED <<tradingSignal, report, stockData>>
    /\ UNCHANGED <<pipeline, tickerInput>>
    /\ UNCHANGED <<simulationVars, fetchVars, callVars>>

ReportSettles ==
    /\ submitPc = "generateResearchReport"
    /\ \E r \in Outcomes(submitPc, {"report"}) :
        /\ stageResult' = r
        /\ IF StageFailed(r)
           THEN Caught(FailureMessage(r, DefaultMessage(submitPc)))
           ELSE /\ report' = r.data
                /\ Invoke("generateImprovedSignals", "Generating trading signals")
                /\ UNCHANGED <<tradingSignal, stockData>>
    /\ UNCHANGED <<pipeline, tickerInput>>
    /\ UNCHANGED <<simulationVars, fetchVars, callVars>>

\* The signal generator settles: the signal is set and the run completed,
\* and the finally ends loading.
SignalsSettle ==
    /\ submitPc \in {"generateSignals", "generateImprovedSignals"}
    /\ \E r \in Outcomes(submitPc, Signals) :
        /\ stageResult' = r
        /\ IF StageFailed(r)
           THEN Caught(FailureMessage(r, DefaultMessage(submitPc)))
           ELSE /\ tradingSignal' = r.data
                /\ currentStep' = "completed"
                /\ analysisLoading' = FALSE
                /\ submitPc' = "Done"
                /\ UNCHANGED <<analysisError, report, stockData, invoked>>
    /\ UNCHANGED <<pipeline, tickerInput>>
    /\ UNCHANGED <<simulationVars, fetchVars, callVars>>

AnalysisNext ==
    \/ HandleSubmit
    \/ ValidateTickerSettles
    \/ GenerateQueriesSettles
    \/ FetchDataSettles
    \/ AnalysisSettles
    \/ ReportSettles
    \/ SignalsSettle

AnalysisSpec == AnalysisInit /\ [][AnalysisNext]_vars

----------------------------------------------------------------------------
(* Properties of handleSubmit *)

IsPrefix(s, t) == Len(s) <= Len(t) /\ \A k \in DOMAIN s : s[k] = t[k]

Running == submitPc \notin {"Idle", "Done"}

\* The result says the stage failed: a rejected promise, success = false, or
\* no data.
Unusable(r) == r.rejected \/ ~r.success \/ r.data = None

\* C18. One-shot pipeline abort: the server actions are invoked in the
\* fixed order of the chain, each at most once in a run; when one settles
\* with success = false or with no data no further one is invoked, the run
\* ends in the error step with that result's message (or the stage's default
\* message) as the only error and no trading signal; the completed step is
\* reached only from the last stage, with every stage invoked and a usable
\* result, and then the signal is set; loading ends in both cases.
PipelineAborts ==
    /\ [](/\ IsPrefix(invoked, Stages(pipeline))
          /\ Running <=> analysisLoading
          /\ Running => submitPc = Last(invoked)
          /\ submitPc = "Done" <=> currentStep \in {"completed", "error"}
          /\ currentStep = "completed" =>
                /\ invoked = Stages(pipeline)
                /\ tradingSignal # None /\ analysisError = NoMessage
          /\ currentStep = "error" =>
                /\ tradingSignal = None /\ analysisError # NoMessage
          /\ tradingSignal # None => currentStep = "completed")
    /\ [][Running =>
            /\ Unusable(stageResult') =>
                /\ invoked' = invoked
                /\ submitPc' = "Done" /\ currentStep' = "error" /\ ~analysisLoading'
                /\ tradingSignal' = None
                /\ analysisError' =
                    IF stageResult'.error # NoMessage THEN stageResult'.error
                    ELSE IF stageResult'.rejected
                    THEN <<"An error occurred during analysis">>
                    ELSE DefaultMessage(submitPc)
            /\ invoked' # invoked =>
                /\ ~Unusable(stageResult')
                /\ Len(invoked) < Len(Stages(pipeline))
                /\ invoked' = Append(invoked, Stages(pipeline)[Len(invoked) + 1])
            /\ currentStep' = "completed" =>
                /\ ~Unusable(stageResult')
                /\ submitPc = Last(Stages(pipeline))
                /\ tradingSignal' = stageResult'.data]_vars
    /\ [][submitPc = "Done" /\ invoked' # invoked =>
            invoked' = <<"validateTicker">> /\ analysisLoading' /\ tradingSignal' = None]_vars

\* The report stage of the extended version answered success without data:
\* five stages invoked, the price shown, no report, no signal, the default
\* message as error.
AbortedAtReport ==
    /\ pipeline = "extended" /\ currentStep = "error" /\ ~analysisLoading
    /\ Len(invoked) = 5 /\ Last(invoked) = "generateResearchReport"
    /\ stageResult = Resolved(TRUE, None, NoMessage)
    /\ analysisError = <<"Failed to generate research report">>
    /\ stockData # None /\ report = None /\ tradingSignal = None

----------------------------------------------------------------------------
(* Properties of the signal generators *)

\* C19. Confidence-to-action banding: every signal generateSignals or
\* generateImprovedSignals returns with success = true has action = hold
\* when its confidence is at most 30, and stocks = 0 when its action is
\* hold.
SignalsBanded ==
    /\ callee \in {"generateSignals", "generateImprovedSignals"}
    /\ returned # None
    /\ returned[1].success
    => LET s == returned[1].data[1]
       IN  /\ s.confidence <= 30 => s.action = "hold"
           /\ s.action = "hold" => s.stocks = 0

----------------------------------------------------------------------------
(* Properties of fetchData: the windows *)

\* The items of a response, none for a null response or one without
\* results.
ItemsOf(response) ==
    IF response = None \/ response[1].results = None THEN <<>> ELSE response[1].results[1]

\* The urls the search service answers with, and the normalized url of
\* each.
ResponseUrls ==
    UNION { { ItemsOf(r)[j].url : j \in DOMAIN ItemsOf(r) } :
                r \in {DatedResponse(Today), PlainResponse} }

KeyOf == [u \in ResponseUrls |-> normalizeUrl(u)]

\* Every item of kept is the first item of the response with its normalized
\* url.
FirstOfItsUrl(kept, response) ==
    LET items == ItemsOf(response)
    IN  \A n \in DOMAIN kept :
            \E j \in DOMAIN items :
                /\ items[j] = kept[n]
                /\ \A before \in 1..(j - 1) :
                        KeyOf[items[before].url] # KeyOf[items[j].url]

\* C20. Lookback windows: in a fetch anchored at d (the simulationDate, or
\* now), every item with a parseable published_date left in an entry of a
\* category lies in [d - L, d], with L = 2 days for recent, 7 for weekly, 30
\* for monthly and 90 for earnings, so none is later than d; and the
\* response was deduplicated before it was filtered: every item left is the
\* first of its search's response with its normalized url.
WindowsRespected ==
    LET d == IF asOf = None THEN Today ELSE asOf[1]
        L == [recent |-> 2, weekly |-> 7, monthly |-> 30, earnings |-> 90]
    IN  \A c \in CategorySet : \A n \in DOMAIN results[c] :
            LET entry == results[c][n]
                kept == ItemsOf(entry.result)
            IN  /\ \A m \in DOMAIN kept :
                    kept[m].published_date.text = "iso" =>
                        /\ kept[m].published_date.day <= d
                        /\ kept[m].published_date.day >= d - L[c]
                /\ entry.success =>
                    \E k \in DOMAIN searches[c] :
                        /\ queries[c][k] = entry.query
                        /\ searches[c][k].state = "returned"
                        /\ FirstOfItsUrl(kept, searches[c][k].res)

Titles(items) == [k \in DOMAIN items |-> items[k].title]

\* A simulated day's fetch has returned with a recent and an earnings search
\* that both got the response with items around every window.
WindowsApplied ==
    /\ fetchPc = "returned" /\ asOf = Some(SimulationDay)
    /\ Len(results.recent) = 1 /\ Len(results.earnings) = 1
    /\ searches.recent[1].res = DatedResponse(SimulationDay)
    /\ searches.earnings[1].res = DatedResponse(SimulationDay)
    /\ Titles(ItemsOf(results.recent[1].result)) = <<"c", "d", "l">>
    /\ Titles(ItemsOf(results.earnings[1].result))
            = <<"c", "d", "e", "f", "g", "h", "i", "j", "l">>

----------------------------------------------------------------------------
(* The gather of a category *)

\* A search of the running category has thrown.
SomeThrown == \E k \in DOMAIN searches[fetchPc] : searches[fetchPc][k].state = "threw"

\* C21. Scatter/gather completion: the Promise.all of a category resolves
\* only after every search dispatched for the category has settled (returned
\* or thrown) and has its entry, and it can resolve as soon as they all
\* have; a search that throws does not resolve it: the searches still
\* pending after a failure go on to settle and each has its entry pushed.
GatherAfterAllSettled ==
    /\ [](fetchPc \in CategorySet /\ pending = {} => ENABLED GatherCompletes)
    /\ [][(fetchPc \in CategorySet /\ fetchPc' # fetchPc) =>
            /\ pending = {}
            /\ \A k \in DOMAIN searches[fetchPc] : searches[fetchPc][k].state # "pending"
            /\ Len(searches[fetchPc]) = Len(queries[fetchPc])
            /\ Len(results[fetchPc]) = Len(queries[fetchPc])
            /\ UNCHANGED <<results>>]_vars
    /\ [][(fetchPc \in CategorySet /\ SomeThrown /\ pending # {}) =>
            /\ fetchPc' = fetchPc
            /\ \E k \in pending :
                /\ pending' = pending \ {k}
                /\ searches'[fetchPc][k].state # "pending"
                /\ Len(results'[fetchPc]) = Len(results[fetchPc]) + 1
                /\ SubSeq(results'[fetchPc], 1, Len(results[fetchPc])) = results[fetchPc]
                /\ Last(results'[fetchPc]).query = queries[fetchPc][k]
                /\ Last(results'[fetchPc]).success
                        = (searches'[fetchPc][k].state = "returned")]_vars

\* The weekly searches were issued after a recent search threw first and
\* the two other recent searches settled after it, one of them returning.
SettledAfterFailure ==
    /\ fetchPc = "weekly"
    /\ Len(queries.recent) = 3 /\ Len(results.recent) = 3
    /\ ~results.recent[1].success
    /\ results.recent[2].success /\ results.recent[2].result # None
    /\ ~results.recent[3].success

----------------------------------------------------------------------------
(* Further properties of the simulation *)

\* What a day's trade does to <<cash, sharesHeld>> and the number of shares
\* it trades, from the action, the portfolio, the price and the trade size
\* alone.
TradeOf(action, c, shares, price, size) ==
    IF action = "buy" /\ c >= size * price
    THEN <<c - size * price, shares + size, size>>
    ELSE IF action = "sell" /\ shares > 0
    THEN <<c + Min(size, shares) * price, shares - Min(size, shares), Min(size, shares)>>
    ELSE <<c, shares, 0>>

\* C22. Fixed trade size: what a day's trade does to cash and sharesHeld, and
\* the number of shares it trades, are determined by the signal's action,
\* cash, sharesHeld, the day's price and tradeSize; the signal's stocks,
\* confidence and signal fields have no part in it, so two runs whose daily
\* signals differ only in those fields have the same cash and sharesHeld on
\* every day; and every logged buy traded exactly tradeSize shares.
FixedTradeSize ==
    /\ [](\A k \in 2..Len(simulationLog) :
            simulationLog[k].action = "buy" => simulationLog[k].sharesTraded = tradeSize)
    /\ [][pc = "ExecutingTrade" =>
            <<cash', sharesHeld', sharesTraded'>>
                = TradeOf(PendingSignal.action, cash, sharesHeld, currentPrice, tradeSize)]_vars

\* A buy signal that named 200 shares was executed for tradeSize shares, after
\* a sell signal that named 100 shares sold the 50 that were held.
BoughtTradeSizeNotStocks ==
    /\ pc = "Logging" /\ i = 2 /\ daySignal # None
    /\ currentLog[2].action = "sell" /\ currentLog[2].sharesTraded = -50
    /\ PendingSignal.action = "buy" /\ PendingSignal.stocks = 200
    /\ sharesTraded = tradeSize
    /\ sharesHeld = tradeSize

\* The steps of a run from the start of its first day on.
InDays == pc \in DayStages \cup {"ExecutingTrade", "Logging", "Finalizing"}

\* C23. The portfolio (cash, sharesHeld) changes only in the trade step, at
\* most once per simulated day: the steps that wait for generateQueries,
\* fetchData, sanitizeData and generateSignals, a failing one included, the
\* valuation and logging step and the final step leave both unchanged; the
\* trade step is taken once between two log entries; and a trade step that
\* ends as a hold leaves both unchanged.
PortfolioChangedOnlyByTrade ==
    /\ [][InDays /\ pc # "ExecutingTrade" => cash' = cash /\ sharesHeld' = sharesHeld]_vars
    /\ [][pc = "ExecutingTrade" =>
            /\ pc' = "Logging" /\ i' = i /\ currentLog' = currentLog
            /\ SignalField(daySignal', "action") = "hold" =>
                    cash' = cash /\ sharesHeld' = sharesHeld /\ sharesTraded' = 0]_vars
    /\ [][pc' = "ExecutingTrade" => pc = "GeneratingSignal" /\ i' = i]_vars
    /\ [][pc = "Logging" => i' = i + 1 /\ Len(currentLog') = Len(currentLog) + 1]_vars

\* Day 1 bought and day 2 received a hold signal; both are logged, the second
\* with the portfolio the first left, and the run is over.
TradedThenUntouched ==
    /\ pc = "Completed" /\ Len(currentLog) = 3
    /\ currentLog[2].action = "buy" /\ currentLog[2].cash < currentLog[1].cash
    /\ currentLog[3].action = "hold" /\ currentLog[3].reason = "mixed evidence"
    /\ currentLog[3].cash = currentLog[2].cash
    /\ currentLog[3].sharesHeld = currentLog[2].sharesHeld
    /\ cash = currentLog[2].cash /\ sharesHeld = currentLog[2].sharesHeld

\* No quote of a later day has a date as early as d.
BeforeLaterDays(d) ==
    \A k \in (i + 1)..(Len(historicalQuotes) - 1) : d < QuoteAt(k).date

\* C24. On every simulated day i, generateQueries and fetchData are called
\* with the date of quote i, the day's own, as simulationDate, which is
\* earlier than the date of every later quote; a trade of day i moves cash
\* by the shares traded times the close of quote i; and the day is logged
\* under that date and price.
AsOfOwnDay ==
    /\ [](pc = "PlanningQueries" =>
            /\ callee = "generateQueries"
            /\ args = <<validateResult.ticker, QuoteAt(i).date>>
            /\ BeforeLaterDays(args[2]))
    /\ [](pc = "FetchingEvidence" =>
            /\ asOf = Some(QuoteAt(i).date)
            /\ BeforeLaterDays(asOf[1]))
    /\ [][pc = "ExecutingTrade" =>
            cash' - cash = (sharesHeld - sharesHeld') * QuoteAt(i).close]_vars
    /\ [][pc = "Logging" =>
            /\ Last(currentLog').date = QuoteAt(i).date
            /\ Last(currentLog').price = QuoteAt(i).close]_vars

\* Day 2's fetchData is in flight with day 2's date, and day 1, logged under
\* its earlier date, bought at its own close, which the closes before and
\* after it differ from.
SecondDayFetching ==
    /\ pc = "FetchingEvidence" /\ i = 2
    /\ asOf = Some(QuoteAt(2).date)
    /\ currentLog[2].action = "buy" /\ currentLog[2].date = QuoteAt(1).date
    /\ currentLog[2].date < asOf[1]
    /\ currentLog[1].cash - currentLog[2].cash = tradeSize * QuoteAt(1).close
    /\ QuoteAt(1).close # QuoteAt(2).close /\ QuoteAt(1).close # QuoteAt(0).close

----------------------------------------------------------------------------
(* What deduplicateSearchResults returns *)

\* The items of a list at the positions of J, in the order of the list.
RECURSIVE Pick(_, _, _)
Pick(items, J, k) ==
    IF k > Len(items) THEN <<>>
    ELSE (IF k \in J THEN <<items[k]>> ELSE <<>>) \o Pick(items, J, k + 1)

\* The positions of the items that have no url or that no earlier item of
\* the list shares its normalized url with.
FirstPositions(items) ==
    { j \in DOMAIN items :
        \/ items[j].url = NoUrl
        \/ \A before \in 1..(j - 1) :
            \/ items[before].url = NoUrl
            \/ normalizeUrl(items[before].url) # normalizeUrl(items[j].url) }

\* C25. Deduplication result: for a response with a results array, the
\* results list returned is the subsequence of the input's, in its order, of
\* the items that have no url or are the first with their normalized url;
\* the images list, if there is one, is that subsequence of the input's
\* images, whatever urls the results have (and the results whatever urls the
\* images have); a response without a results array, or none at all, is
\* returned as it came.
DedupResult ==
    Returned("deduplicateSearchResults") =>
        IF args[1] = None \/ args[1][1].results = None
        THEN returned[1] = args[1]
        ELSE LET given == args[1][1]
                 got == returned[1][1]
             IN  /\ returned[1] # None
                 /\ got.results = Some(Pick(given.results[1], FirstPositions(given.results[1]), 1))
                 /\ got.images = IF given.images = None THEN None
                                 ELSE Some(Pick(given.images[1], FirstPositions(given.images[1]), 1))

\* A response whose second result respells the url of the first, with an
\* item without url between them, and whose images have that url too: the
\* respelled result and the second image are gone, the first image is kept.
SameUrlInResultsAndImages ==
    /\ Returned("deduplicateSearchResults")
    /\ args[1] # None /\ args[1][1].results # None /\ args[1][1].images # None
    /\ Titles(args[1][1].results[1]) = <<"first", "untitled", "second">>
    /\ Titles(returned[1][1].results[1]) = <<"first", "untitled">>
    /\ Len(args[1][1].images[1]) = 2
    /\ args[1][1].images[1][1].url = args[1][1].results[1][1].url
    /\ returned[1][1].images = Some(<<args[1][1].images[1][1]>>)

----------------------------------------------------------------------------
(* The log of a run, entry by entry *)

\* C26. Log delta consistency: for every two consecutive entries (prev, cur)
\* of a run's log, cur.sharesHeld - prev.sharesHeld = cur.sharesTraded, with
\* its sign, and cur.cash - prev.cash = -cur.sharesTraded * cur.price; so
\* sharesTraded is positive only in an entry whose action is buy and negative
\* only in one whose action is sell.
DeltaConsistent(log) ==
    \A k \in 2..Len(log) :
        LET prev == log[k - 1]
            cur == log[k]
        IN  /\ cur.sharesHeld - prev.sharesHeld = cur.sharesTraded
            /\ cur.cash - prev.cash = -cur.sharesTraded * cur.price
            /\ cur.sharesTraded > 0 => cur.action = "buy"
            /\ cur.sharesTraded < 0 => cur.action = "sell"

LogDeltasConsistent == DeltaConsistent(currentLog) /\ DeltaConsistent(simulationLog)

\* A completed run that sold the 50 shares it started with on day 1 and
\* bought tradeSize shares on day 2, at different prices.
SoldThenBoughtLogged ==
    /\ pc = "Completed" /\ Len(simulationLog) = 3
    /\ simulationLog[1].sharesHeld = 50
    /\ simulationLog[2].action = "sell" /\ simulationLog[2].sharesTraded = -50
    /\ simulationLog[2].cash = initialCash + 50 * simulationLog[2].price
    /\ simulationLog[3].action = "buy" /\ simulationLog[3].sharesTraded = tradeSize
    /\ simulationLog[3].price # simulationLog[2].price

ErrorEntry(entry) ==
    /\ (entry.error # NoMessage) <=> (entry.signal = Undefined)
    /\ entry.error # NoMessage =>
        entry.action = Undefined /\ entry.sharesTraded = 0 /\ entry.reason = Undefined
    /\ entry.sharesTraded # 0 => entry.error = NoMessage /\ entry.signal # Undefined

ErrorIffNoSignal ==
    /\ \A k \in 2..Len(currentLog) : ErrorEntry(currentLog[k])
    /\ \A k \in 2..Len(simulationLog) : ErrorEntry(simulationLog[k])
    /\ pc = "ExecutingTrade" => daySignal # None /\ dayError = NoMessage
    /\ pc = "Logging" => ((dayError # NoMessage) <=> (daySignal = None))
    /\ pc = "Logging" /\ sharesTraded # 0 => daySignal # None
    /\ pc \in DayStages => daySignal = None /\ dayError = NoMessage /\ sharesTraded = 0

\* Day 1 failed at fetchData, which gave no message of its own, and day 2
\* sold on a bearish signal.
FailedWithoutMessageThenSold ==
    /\ Len(simulationLog) = 3
    /\ simulationLog[2].error = <<"Failed to fetch news data">>
    /\ simulationLog[2].signal = Undefined /\ simulationLog[2].action = Undefined
    /\ simulationLog[2].sharesTraded = 0
    /\ simulationLog[3].error = NoMessage
    /\ simulationLog[3].signal = "bearish" /\ simulationLog[3].action = "sell"
    /\ simulationLog[3].sharesTraded < 0

\* The return the page shows next to the final portfolio value,
\* ((finalPortfolioValue - initialCash) / initialCash * 100).toFixed(2), in
\* hundredths of a percent (exact: values are whole and initialCash divides
\* 10000 times the difference); nothing is shown while there is no final
\* value.
reportedReturn ==
    IF finalPortfolioValue = None THEN None
    ELSE Some(((finalPortfolioValue[1] - initialCash) * 10000) \div initialCash)

\* C29. Reported return: in every completed simulation, those started with
\* initialShares > 0 included, if the final portfolio value equals the
\* portfolio value of the Start entry then the return shown is 0%.
ReturnZeroWhenUnchanged ==
    pc = "Completed" /\ finalPortfolioValue = Some(simulationLog[1].portfolioValue)
        => reportedReturn = Some(0)

----------------------------------------------------------------------------
(* The order of the categories inside one call of fetchData *)

\* Where the call is: 0 before it, n while category n's searches are
\* awaited, one more than the number of categories from the price request
\* on.
Position ==
    CASE fetchPc = "NotCalled" -> 0
      [] fetchPc \in CategorySet -> CHOOSE n \in DOMAIN Categories : Categories[n] = fetchPc
      [] OTHER -> Len(Categories) + 1

IssuedAndSettled(c) ==
    /\ Len(searches[c]) = Len(queries[c])
    /\ Len(results[c]) = Len(queries[c])
    /\ \A k \in DOMAIN searches[c] : searches[c][k].state # "pending"

\* C30. Category ordering inside one call of fetchData: no weekly search is
\* issued before every recent search has settled, no monthly search before
\* every weekly one, no earnings search before every monthly one, and the
\* price request is issued only after every planned search of every category
\* has settled; the searches in flight at any moment belong to one category.
CategoriesInOrder ==
    /\ \A n \in DOMAIN Categories :
        LET c == Categories[n]
        IN  /\ n > Position => searches[c] = <<>> /\ results[c] = <<>>
            /\ n < Position => IssuedAndSettled(c)
            /\ n = Position =>
                /\ Len(searches[c]) = Len(queries[c])
                /\ pending = { k \in DOMAIN searches[c] : searches[c][k].state = "pending" }
            /\ n # Position => \A k \in DOMAIN searches[c] : searches[c][k].state # "pending"
    /\ fetchPc \notin CategorySet => pending = {}
    /\ fetchPc # "returned" => stockDataResult = None /\ fetchReturn = None

\* The price request is in flight after a recent, a monthly and an earnings
\* search, one of which threw, and no weekly search.
PriceAfterEveryCategory ==
    /\ fetchPc = "price"
    /\ Len(queries.recent) = 1 /\ Len(queries.weekly) = 0
    /\ Len(queries.monthly) = 1 /\ Len(queries.earnings) = 1
    /\ searches.recent[1].state = "returned"
    /\ searches.monthly[1].state = "threw"
    /\ searches.earnings[1].state = "returned"
    /\ fetchReturn = None

====
